---------------------------- MODULE Spec2Model ----------------------------
(***************************************************************************)
(* A model of the IRC daemon of horgh/irc: the per-connection Client, the  *)
(* registered UserClient and the TS6 LocalServer link, driven by a single  *)
(* serializing event core, with one writer per connection draining a       *)
(* bounded outbound queue.                                                 *)
(*                                                                         *)
(* Strings are sequences of one-character strings, so that validation,    *)
(* case folding, trimming, splitting and the base-26 identifier are        *)
(* computed character by character as the source does.                     *)
(***************************************************************************)
EXTENDS Integers, Sequences, FiniteSets, TLC

(***************************************************************************)
(* Bounds of the model.                                                    *)
(***************************************************************************)
\* Connections accepted in one run (IDs 1 .. MaxConns are handed out).
MaxConns == 3
\* Capacity of a connection's WriteChan in the model (the source buffers
\* 32768 messages, src/unnamed/part_004:86).
WriteChanCap == 6
\* Connection IDs 0 .. MaxSmallID are all tried by the identifier check.
MaxSmallID == 30
\* Connections whose peer does not read what is written to it.
MaxStalled == 1
\* Lines read from all connections in one run, when every peer keeps up.
MaxLines == 8
\* Lines read from all connections in one run, when peers stall or fail.
MaxLinesSlow == 6
\* Lines read from all connections in one run of servers passing messages.
MaxLinesRoute == 11
\* Lines read from all connections in one run of servers introducing servers.
MaxLinesFlood == 10
\* Lines read from all connections in one run of users on channels.
MaxLinesChan == 13
\* Lines read from all connections in one run of servers that link one after the other.
MaxLinesBurst == 12
\* Lines read from all connections in one run of a server passing messages to local users.
MaxLinesLocal == 10
\* Lines read from all connections in one run of connections that do not register.
MaxLinesUnreg == 7
\* Lines read from all connections in one run of readers that run ahead of the core.
MaxLinesOrder == 4
\* Connections accepted in such a run.
MaxConnsOrder == 2
\* A long parameter has MaxLineLength - MaxLongSlack .. MaxLineLength bytes.
MaxLongSlack == 12
\* Stray spaces tried before the end of a line.
MaxStray == 3
\* Lines of up to this many bytes are all tried by the line-ending check.
MaxEndingLen == 4

\* The lines a server sends to the client library in one behaviour.
MaxLibLines == 4

\* The hooks registered in client.Hooks.
NumHooks == 2

\* Conn.Message is given messages of up to this many full pieces, and of
\* up to MessageSlack bytes less or more than a number of full pieces.
MaxPieces == 3
MessageSlack == 2

(***************************************************************************)
(* Characters and strings.                                                 *)
(***************************************************************************)
Upper == <<"A","B","C","D","E","F","G","H","I","J","K","L","M",
           "N","O","P","Q","R","S","T","U","V","W","X","Y","Z">>

Lower == <<"a","b","c","d","e","f","g","h","i","j","k","l","m",
           "n","o","p","q","r","s","t","u","v","w","x","y","z">>

Digits == <<"0","1","2","3","4","5","6","7","8","9">>

Range(f) == {f[i] : i \in DOMAIN f}

IsUpper(c) == c \in Range(Upper)

IsLower(c) == c \in Range(Lower)

IsDigit(c) == c \in Range(Digits)

IndexOf(seq, c) == CHOOSE i \in DOMAIN seq : seq[i] = c

\* strings.ToLower, one character.
ToLowerChar(c) == IF IsUpper(c) THEN Lower[IndexOf(Upper, c)] ELSE c

\* strings.ToLower.
ToLower(s) == [i \in DOMAIN s |-> ToLowerChar(s[i])]

\* The value of a decimal digit character.
DigitVal(c) == IndexOf(Digits, c) - 1

Pow26(k) == IF k = 0 THEN 1 ELSE IF k = 1 THEN 26 ELSE IF k = 2 THEN 676
            ELSE IF k = 3 THEN 17576 ELSE IF k = 4 THEN 456976
            ELSE IF k = 5 THEN 11881376 ELSE 308915776

(***************************************************************************)
(* TS6 identifiers of local connections (UserClient.getTS6ID / getTS6UID). *)
(***************************************************************************)
\* The daemon's configured SID and name (Config.TS6SID, Config.ServerName).
TS6SID == <<"8","Z","Z">>

ServerName == <<"i","r","c","8">>

\* 26**6, the number of six-letter identifiers.
TS6IDLimit == 308915776

\* An error result of a function that returns (value, error).
Err == [err |-> TRUE, val |-> <<>>]

Ok(v) == [err |-> FALSE, val |-> v]

\* The byte written for a digit value: byte(rem) + 'A'.  Values past 'Z'
\* are bytes outside A..Z; the model writes them as "?".
ByteA(d) == IF d \in 0..25 THEN Upper[d + 1] ELSE "?"

\* The loop of getTS6ID: while id >= 26, store id % 26 at pos and step left.
\* A store at a negative position is an index-out-of-range fault ("!").
\* The loop with the test id > 26 in place of id >= 26.
RECURSIVE TS6LoopStrict(_, _, _)
TS6LoopStrict(id, ts6id, pos) ==
  IF id > 26
    THEN IF pos < 0 THEN <<"!">>
         ELSE TS6LoopStrict(id \div 26,
                            [ts6id EXCEPT ![pos + 1] = ByteA(id % 26)], pos - 1)
    ELSE IF pos < 0 THEN <<"!">>
         ELSE [ts6id EXCEPT ![pos + 1] = ByteA(id)]

RECURSIVE TS6Loop(_, _, _)
TS6Loop(id, ts6id, pos) ==
  IF id >= 26
    THEN IF pos < 0 THEN <<"!">>
         ELSE TS6Loop(id \div 26,
                      [ts6id EXCEPT ![pos + 1] = ByteA(id % 26)], pos - 1)
    ELSE IF pos < 0 THEN <<"!">>
         ELSE [ts6id EXCEPT ![pos + 1] = ByteA(id)]

\* The overflow check with > in place of >=.
getTS6IDLateCheck(id) ==
  IF id > TS6IDLimit THEN Err
  ELSE Ok(TS6Loop(id, <<"A","A","A","A","A","A">>, 5))

getTS6ID(id) ==
  IF id >= TS6IDLimit THEN Err
  ELSE Ok(TS6Loop(id, <<"A","A","A","A","A","A">>, 5))

getTS6UID(id) ==
  LET r == getTS6ID(id) IN
  IF r.err THEN Err ELSE Ok(TS6SID \o r.val)


(***************************************************************************)
(* Validation and canonical forms.                                         *)
(***************************************************************************)
\* Config.MaxNickLength of the model's daemon.
MaxNickLength == 2

\* irc.IsValidNick: non-empty, only a-z, 0-9 or _.
IsValidNick(n) ==
  /\ Len(n) > 0
  /\ \A i \in DOMAIN n : IsLower(n[i]) \/ IsDigit(n[i]) \/ n[i] = "_"

\* isValidNick(maxLen, n) of the daemon: IsValidNick within the length limit.
isValidNick(maxLen, n) == Len(n) <= maxLen /\ IsValidNick(n)

\* irc.IsValidUser: non-empty, only a-z or 0-9.
IsValidUser(u) ==
  /\ Len(u) > 0
  /\ \A i \in DOMAIN u : IsLower(u[i]) \/ IsDigit(u[i])

isValidUser(maxLen, u) == Len(u) <= maxLen /\ IsValidUser(u)

\* irc.IsValidChannel: '#' followed by a-z or 0-9 only.
isValidChannel(c) ==
  /\ Len(c) > 0
  /\ c[1] = "#"
  /\ \A i \in DOMAIN c : i > 1 => (IsLower(c[i]) \/ IsDigit(c[i]))

canonicalizeNick(n) == ToLower(n)

canonicalizeChannel(c) == ToLower(c)

\* SID format: 3 characters, a digit then two upper-case letters or digits.
isValidSID(x) ==
  /\ Len(x) = 3
  /\ IsDigit(x[1])
  /\ \A i \in 2..3 : IsUpper(x[i]) \/ IsDigit(x[i])

\* UID format: a SID followed by six upper-case letters.
isValidUID(x) ==
  /\ Len(x) = 9
  /\ isValidSID(SubSeq(x, 1, 3))
  /\ \A i \in 4..9 : IsUpper(x[i])

isValidRealName(x) == Len(x) > 0

isNumericCommand(command) ==
  command \in {"001", "002", "003", "004", "251", "422", "402", "403",
               "411", "412", "421", "451", "461", "433", "432", "431"}

\* strconv.ParseInt(x, 10, bits): an optional sign and decimal digits, the
\* value within the signed range of the bit size (the model's inputs are
\* short, so only the 8-bit range can be left).
RECURSIVE DecValue(_, _)
DecValue(x, acc) ==
  IF x = <<>> THEN acc ELSE DecValue(Tail(x), acc * 10 + DigitVal(Head(x)))

ParseInt(x, bits) ==
  LET neg  == Len(x) > 0 /\ x[1] = "-"
      body == IF Len(x) > 0 /\ x[1] \in {"-", "+"} THEN Tail(x) ELSE x
  IN IF body = <<>> \/ \E i \in DOMAIN body : ~IsDigit(body[i]) THEN Err
     ELSE LET v == DecValue(body, 0) IN
          IF bits = 8 /\ neg /\ v > 128 THEN Err
          ELSE IF bits = 8 /\ ~neg /\ v > 127 THEN Err
          ELSE Ok(IF neg THEN 0 - v ELSE v)

\* fmt.Sprintf("%d", n) for n >= 0.
RECURSIVE FormatInt(_)
FormatInt(n) ==
  IF n < 10 THEN <<Digits[n + 1]>>
  ELSE Append(FormatInt(n \div 10), Digits[(n % 10) + 1])

\* A trim that cuts '@' and leaves '+'.
RECURSIVE TrimLeftOpOnly(_)
TrimLeftOpOnly(x) ==
  IF x # <<>> /\ Head(x) = "@" THEN TrimLeftOpOnly(Tail(x)) ELSE x

\* strings.TrimLeft(x, "@+").
RECURSIVE TrimLeftOpVoice(_)
TrimLeftOpVoice(x) ==
  IF x # <<>> /\ Head(x) \in {"@", "+"} THEN TrimLeftOpVoice(Tail(x)) ELSE x

\* strings.Split(x, " "): the fields between single spaces (an empty string
\* splits into one empty field).
RECURSIVE SplitSpace(_, _, _)
SplitSpace(x, cur, acc) ==
  IF x = <<>> THEN Append(acc, cur)
  ELSE IF Head(x) = " " THEN SplitSpace(Tail(x), <<>>, Append(acc, cur))
  ELSE SplitSpace(Tail(x), Append(cur, Head(x)), acc)

Split(x) == SplitSpace(x, <<>>, <<>>)

(***************************************************************************)
(* The message codec (package irc): Message.Encode, ParseMessage and the   *)
(* parsers under it.  A line is a sequence of bytes, one element each; the *)
(* Command of a codec message is a sequence of bytes too.  Indexes are the *)
(* source's (from 0): byte i of the source is element i + 1 here.          *)
(***************************************************************************)
\* MaxLineLength, CRLF included.
MaxLineLength == 512

CR == "\r"

LF == "\n"

NUL == "NUL"

CRLF == <<CR, LF>>

\* One result of the codec: what was returned, and "nil", "ErrTruncated" or
\* "error" (any other error, which comes with an empty value).
CodecOut(val, err) == [val |-> val, err |-> err]

NoMessage == [Prefix |-> <<>>, Command |-> <<>>, Params |-> <<>>]

\* strings.IndexAny(param, ": ") != -1.
HasColonOrSpace(param) == \E i \in DOMAIN param : param[i] \in {":", " "}

\* The loop over m.Params of Encode, from parameter i on, s being the line so far.
RECURSIVE EncodeParams(_, _, _)
EncodeParams(params, i, s) ==
  IF i > Len(params) THEN CodecOut(s \o CRLF, "nil")
  ELSE
    LET colon == HasColonOrSpace(params[i]) \/ Len(params[i]) = 0
        param == IF colon THEN <<":">> \o params[i] ELSE params[i]
        lengthAvailable == MaxLineLength - (Len(s) + 1 + 2)
    IN  IF colon /\ i # Len(params) THEN CodecOut(<<>>, "error")
        ELSE IF Len(s) + 1 + Len(param) + 2 > MaxLineLength
          THEN CodecOut((IF lengthAvailable > 0
                           THEN s \o <<" ">> \o SubSeq(param, 1, lengthAvailable)
                           ELSE s) \o CRLF,
                        "ErrTruncated")
        ELSE EncodeParams(params, i + 1, s \o <<" ">> \o param)

\* An Encode that lets a prefix and command of any length through.
EncodeLongHead(m) ==
  LET s == (IF Len(m.Prefix) > 0 THEN <<":">> \o m.Prefix \o <<" ">> ELSE <<>>)
             \o m.Command
  IN  EncodeParams(m.Params, 1, s)

\* Message.Encode.
Encode(m) ==
  LET s == (IF Len(m.Prefix) > 0 THEN <<":">> \o m.Prefix \o <<" ">> ELSE <<>>)
             \o m.Command
  IN  IF Len(s) + 2 > MaxLineLength THEN CodecOut(<<>>, "error")
      ELSE EncodeParams(m.Params, 1, s)

\* A fixLineEnding that does not look for the CR before the LF.
fixLineEndingAddCR(line) ==
  IF Len(line) = 0 THEN CodecOut(<<>>, "error")
  ELSE IF line[Len(line)] = LF
    THEN CodecOut(SubSeq(line, 1, Len(line) - 1) \o CRLF, "nil")
  ELSE CodecOut(<<>>, "error")

\* fixLineEnding.
fixLineEnding(line) ==
  IF Len(line) = 0 THEN CodecOut(<<>>, "error")
  ELSE IF Len(line) = 1
    THEN IF line[1] = LF THEN CodecOut(CRLF, "nil") ELSE CodecOut(<<>>, "error")
  ELSE IF line[Len(line) - 1] = CR /\ line[Len(line)] = LF
    THEN CodecOut(line, "nil")
  ELSE IF line[Len(line)] = LF
    THEN CodecOut(SubSeq(line, 1, Len(line) - 1) \o CRLF, "nil")
  ELSE CodecOut(<<>>, "error")

\* line[i] of the source.
At(line, i) == line[i + 1]

\* line[a:b] of the source.
Slice(line, a, b) == SubSeq(line, a + 1, b)

\* One result of a parser: the value, the index after it, and the error.
Parsed(val, idx, err) == [val |-> val, idx |-> idx, err |-> err]

\* for pos < len(line) { if line[pos] is in stops { break }; pos++ }
\* Where the loop ends: at the first byte of stops from pos on, or at the
\* end of the line.
ScanUntil(line, pos, stops) ==
  LET hits == {p \in pos..(Len(line) - 1) : At(line, p) \in stops}
  IN  IF hits # {} THEN CHOOSE p \in hits : \A q \in hits : p <= q
      ELSE IF pos >= Len(line) THEN pos
      ELSE Len(line)

\* parsePrefix: line begins with ':'.
parsePrefix(line) ==
  IF At(line, 0) # ":" THEN Parsed(<<>>, -1, "error")
  ELSE
    LET pos == ScanUntil(line, 0, {" ", NUL, LF, CR})
    IN  IF pos < Len(line) /\ At(line, pos) # " " THEN Parsed(<<>>, -1, "error")
        ELSE IF pos = Len(line) THEN Parsed(<<>>, -1, "error")
        ELSE IF pos = 1 THEN Parsed(<<>>, -1, "error")
        ELSE Parsed(Slice(line, 1, pos), pos + 1, "nil")

\* A byte parseCommand takes: a digit (48..57) or a byte of 65..122, which
\* are the letters and the six bytes between 'Z' and 'a' (of these the
\* model's lines use '[', ']', '^' and '_').
IsCommandByte(c) ==
  IsDigit(c) \/ IsUpper(c) \/ IsLower(c) \/ c \in {"[", "]", "^", "_"}

\* strings.ToUpper, one character.
ToUpperChar(c) == IF IsLower(c) THEN Upper[IndexOf(Lower, c)] ELSE c

\* strings.ToUpper.
ToUpper(s) == [i \in DOMAIN s |-> ToUpperChar(s[i])]

RECURSIVE CommandScan(_, _)
CommandScan(line, pos) ==
  IF pos < Len(line) /\ IsCommandByte(At(line, pos)) THEN CommandScan(line, pos + 1)
  ELSE pos

\* parseCommand.
parseCommand(line, index) ==
  LET newIndex == CommandScan(line, index)
  IN  IF newIndex < Len(line) /\ At(line, newIndex) \notin {" ", CR}
        THEN Parsed(<<>>, -1, "error")
      ELSE IF newIndex = index THEN Parsed(<<>>, -1, "error")
      ELSE Parsed(ToUpper(Slice(line, index, newIndex)), newIndex, "nil")

\* A parseParam whose error for an empty middle parameter is not the one
\* parseParams looks for.
parseParamOtherError(line, index) ==
  IF At(line, index) # " " THEN Parsed(<<>>, -1, "error")
  ELSE IF Len(line) = index + 1 THEN Parsed(<<>>, -1, "error")
  ELSE IF At(line, index + 1) = ":"
    THEN IF Len(line) = index + 2 THEN Parsed(<<>>, -1, "error")
         ELSE LET newIndex == ScanUntil(line, index + 2, {NUL, CR, LF})
              IN  Parsed(Slice(line, index + 2, newIndex), newIndex, "nil")
  ELSE LET newIndex == ScanUntil(line, index + 1, {NUL, CR, LF, " "})
       IN  IF newIndex = index + 1 THEN Parsed(<<>>, -1, "error")
           ELSE Parsed(Slice(line, index + 1, newIndex), newIndex, "nil")

\* parseParam: index points to a space.  The error "zero" is the source's
\* "param with zero characters", which parseParams looks for.
parseParam(line, index) ==
  IF At(line, index) # " " THEN Parsed(<<>>, -1, "error")
  ELSE IF Len(line) = index + 1 THEN Parsed(<<>>, -1, "error")
  ELSE IF At(line, index + 1) = ":"
    THEN IF Len(line) = index + 2 THEN Parsed(<<>>, -1, "error")
         ELSE LET newIndex == ScanUntil(line, index + 2, {NUL, CR, LF})
              IN  Parsed(Slice(line, index + 2, newIndex), newIndex, "nil")
  ELSE LET newIndex == ScanUntil(line, index + 1, {NUL, CR, LF, " "})
       IN  IF newIndex = index + 1 THEN Parsed(<<>>, -1, "zero")
           ELSE Parsed(Slice(line, index + 1, newIndex), newIndex, "nil")

\* parseParamLast that leaves the ':' in the parameter.
parseParamLastKeepColon(line, index) ==
  IF At(line, index) # " " THEN Parsed(<<>>, -1, "error")
  ELSE IF index + 1 = Len(line) THEN Parsed(<<>>, -1, "error")
  ELSE LET newIndex == ScanUntil(line, index + 1, {NUL, CR, LF})
       IN  Parsed(Slice(line, index + 1, newIndex), newIndex, "nil")

\* parseParamLast: the fifteenth parameter, with or without ':'.
parseParamLast(line, index) ==
  IF At(line, index) # " " THEN Parsed(<<>>, -1, "error")
  ELSE IF index + 1 = Len(line) THEN Parsed(<<>>, -1, "error")
  ELSE
    LET start == IF At(line, index + 1) = ":" THEN index + 2 ELSE index + 1
    IN  IF start = Len(line) THEN Parsed(<<>>, -1, "error")
        ELSE LET newIndex == ScanUntil(line, start, {NUL, CR, LF})
             IN  Parsed(Slice(line, start, newIndex), newIndex, "nil")

\* The loop of parseParams, newIndex and params being its variables.
RECURSIVE ParamsLoop(_, _, _)
ParamsLoop(line, newIndex, params) ==
  IF newIndex >= Len(line) THEN Parsed(<<>>, -1, "error")
  ELSE IF At(line, newIndex) # " " THEN Parsed(params, newIndex, "nil")
  ELSE IF Len(params) < 14
    THEN LET r == parseParam(line, newIndex)
         IN  IF r.err # "nil"
               THEN IF /\ r.err = "zero"
                       /\ newIndex + 3 = Len(line)
                       /\ At(line, newIndex) = " "
                       /\ At(line, newIndex + 1) = CR
                       /\ At(line, newIndex + 2) = LF
                      THEN Parsed(params, newIndex + 1, "nil")
                    ELSE Parsed(<<>>, -1, "error")
             ELSE ParamsLoop(line, r.idx, Append(params, r.val))
  ELSE LET r == parseParamLast(line, newIndex)
       IN  IF r.err # "nil" THEN Parsed(<<>>, -1, "error")
           ELSE Parsed(Append(params, r.val), r.idx, "nil")

\* parseParams.
parseParams(line, index) == ParamsLoop(line, index, <<>>)

\* ParseMessage, after fixLineEnding and the cut at MaxLineLength.
ParseFixed(line, truncated) ==
  LET pre == IF At(line, 0) = ":" THEN parsePrefix(line)
             ELSE Parsed(<<>>, 0, "nil")
  IN  IF pre.err # "nil" THEN CodecOut(NoMessage, "error")
      ELSE IF At(line, 0) = ":" /\ pre.idx >= Len(line)
        THEN CodecOut(NoMessage, "error")
      ELSE
        LET cmd == parseCommand(line, pre.idx)
        IN  IF cmd.err # "nil" THEN CodecOut(NoMessage, "error")
            ELSE
              LET ps == parseParams(line, cmd.idx)
              IN  IF ps.err # "nil" THEN CodecOut(NoMessage, "error")
                  ELSE IF \/ ps.idx # Len(line) - 2
                          \/ At(line, ps.idx) # CR
                          \/ At(line, ps.idx + 1) # LF
                    THEN CodecOut(NoMessage, "error")
                  ELSE CodecOut([Prefix |-> pre.val, Command |-> cmd.val,
                                 Params |-> ps.val],
                                IF truncated THEN "ErrTruncated" ELSE "nil")

\* ParseMessage.
ParseMessage(line) ==
  LET fixed == fixLineEnding(line)
  IN  IF fixed.err # "nil" THEN CodecOut(NoMessage, "error")
      ELSE IF Len(fixed.val) > MaxLineLength
        THEN ParseFixed(SubSeq(fixed.val, 1, MaxLineLength - 2) \o CRLF, TRUE)
      ELSE ParseFixed(fixed.val, FALSE)

(***************************************************************************)
(* Finite maps.                                                            *)
(***************************************************************************)
Has(f, k) == k \in DOMAIN f

Put(f, k, v) == [x \in (DOMAIN f) \cup {k} |-> IF x = k THEN v ELSE f[x]]

Del(f, k) == [x \in (DOMAIN f) \ {k} |-> f[x]]

EmptyMap == [x \in {} |-> 0]

(***************************************************************************)
(* State.                                                                  *)
(***************************************************************************)
VARIABLES
  nextID,               \* the ID the next accepted connection gets
  UnregisteredClients,  \* connection ID -> Client (not yet user or server)
  LocalServers,         \* connection ID -> LocalServer (a linked peer)
  Servers,              \* SID -> Server (every known server)
  Users,                \* UID -> User (every known user, local or remote)
  Nicks,                \* canonical nick -> UID
  Channels,             \* canonical channel name -> Channel
  Opers,                \* UIDs of the known operators
  WriteChan,            \* connection ID -> the messages queued for its writer
  closed,               \* connection IDs whose WriteChan has been closed
  SendQueueExceeded,    \* connection ID -> the flag of its current record
  writer,               \* connection ID -> "none" | "running" | "stalled" | "dead" | "done"
  reader,               \* connection ID -> "none" | "running" | "dead"
  events,               \* the core's inbound events not yet handled
  core,                 \* the core's control state (idle, blocked in a send, faulted)
  lines,                \* the lines read from all connections so far
  tsID,                 \* identifier check: the two connection IDs tried
  tsOut,                \* identifier check: what getTS6ID / getTS6UID returned
  codec,                \* codec check: the input and what the codec returned
  lib,                  \* the client library: its connection and the hook calls
  hist                  \* per connection, the lines read and the lines handled

vars == <<nextID, UnregisteredClients, LocalServers, Servers, Users, Nicks,
          Channels, Opers, WriteChan, closed, SendQueueExceeded, writer,
          reader, events, core, lines, tsID, tsOut, codec, lib, hist>>

daemonVars == <<nextID, UnregisteredClients, LocalServers, Servers, Users,
                Nicks, Channels, Opers, WriteChan, closed, SendQueueExceeded,
                writer, reader, events, core, lines>>

ConnIDs == 1..MaxConns

\* No line read and none handled, on any connection.
NoHist == [id \in ConnIDs |-> [read |-> <<>>, handled |-> <<>>]]

\* The codec check and the client library when they are not run.
NoCodec == [stage |-> "none", m |-> NoMessage, line |-> <<>>,
            enc |-> CodecOut(<<>>, "unset"), dec |-> CodecOut(NoMessage, "unset"),
            fix |-> CodecOut(<<>>, "unset"), again |-> CodecOut(<<>>, "unset")]

NoLib == [pc |-> "none", via |-> "none", sent |-> 0, in |-> <<>>, read |-> <<>>,
          calls |-> <<>>, out |-> <<>>,
          target |-> <<>>, message |-> <<>>, ret |-> "none"]

\* irc.Message.
Msg(prefix, command, params) ==
  [Prefix |-> prefix, Command |-> command, Params |-> params]

\* A continuation of a handler that is blocked in a channel send.
NoCont == [op |-> "none", id |-> 0, arg |-> <<>>]

IdleCore == [pc |-> "idle", sends |-> <<>>, cont |-> NoCont]

\* The state the core owns, as one record: handlers are functions on it.
Cur ==
  [UnregisteredClients |-> UnregisteredClients, LocalServers |-> LocalServers,
   Servers |-> Servers, Users |-> Users, Nicks |-> Nicks,
   Channels |-> Channels, Opers |-> Opers, WriteChan |-> WriteChan,
   closed |-> closed, SendQueueExceeded |-> SendQueueExceeded, core |-> core]

\* A handler that faulted (a Go panic) ends the process: nothing it did after
\* the fault exists, and the tables are left as they were found.
Apply(s) ==
  IF s.core.pc = "panicked"
    THEN /\ core' = [core EXCEPT !.pc = "panicked"]
         /\ UNCHANGED <<UnregisteredClients, LocalServers, Servers, Users,
                        Nicks, Channels, Opers, WriteChan, closed,
                        SendQueueExceeded>>
    ELSE /\ UnregisteredClients' = s.UnregisteredClients
         /\ LocalServers' = s.LocalServers
         /\ Servers' = s.Servers
         /\ Users' = s.Users
         /\ Nicks' = s.Nicks
         /\ Channels' = s.Channels
         /\ Opers' = s.Opers
         /\ WriteChan' = s.WriteChan
         /\ closed' = s.closed
         /\ SendQueueExceeded' = s.SendQueueExceeded
         /\ core' = s.core

Panic(s) == [s EXCEPT !.core.pc = "panicked"]

(***************************************************************************)
(* Client: a connection that has not registered yet.                       *)
(***************************************************************************)
\* NewClient: an open, empty WriteChan and no pre-registration data.
NewClient ==
  [PreRegDisplayNick |-> <<>>, PreRegUser |-> <<>>, PreRegRealName |-> <<>>,
   PreRegPass |-> <<>>, PreRegTS6SID |-> <<>>, PreRegServerName |-> <<>>,
   Got |-> {}, Sent |-> {}]

\* Client.maybeQueueMessage: a send that never waits.  A full queue flags the
\* connection and drops the message; a flagged connection gets nothing more.
\* A send on a closed channel panics, inside a select too.
maybeQueueMessage(s, id, m) ==
  IF s.core.pc = "panicked" THEN s
  ELSE IF s.SendQueueExceeded[id] THEN s
  ELSE IF id \in s.closed THEN Panic(s)
  ELSE IF Len(s.WriteChan[id]) < WriteChanCap
    THEN [s EXCEPT !.WriteChan[id] = Append(@, m)]
  ELSE [s EXCEPT !.SendQueueExceeded[id] = TRUE]

\* close(c.WriteChan): closing a closed channel panics.
closeWriteChan(s, id) ==
  IF s.core.pc = "panicked" THEN s
  ELSE IF id \in s.closed THEN Panic(s)
  ELSE [s EXCEPT !.closed = @ \cup {id}]

\* Client.messageFromServer.
ClientMessageFromServer(s, id, command, params) ==
  LET c    == s.UnregisteredClients[id]
      nick == IF Len(c.PreRegDisplayNick) > 0 THEN c.PreRegDisplayNick
              ELSE <<"*">>
      ps   == IF isNumericCommand(command) THEN <<nick>> \o params ELSE params
  IN maybeQueueMessage(s, id, Msg(ServerName, command, ps))

\* Client.quit.
ClientQuit(s, id, msg) ==
  LET c  == s.UnregisteredClients[id]
      s1 == ClientMessageFromServer(s, id, "ERROR", <<msg>>)
      s2 == closeWriteChan(s1, id)
      s3 == IF Len(c.PreRegDisplayNick) > 0
              THEN [s2 EXCEPT !.Nicks =
                                 Del(@, canonicalizeNick(c.PreRegDisplayNick))]
              ELSE s2
  IN [s3 EXCEPT !.UnregisteredClients = Del(@, id)]

(***************************************************************************)
(* Sends that wait: UserClient.messageFromServer and messageClient write   *)
(* to the channel directly, so the core waits while the queue is full.     *)
(***************************************************************************)
\* The user-table entry of a local connection, if any.
LocalUIDs(s, id) == {u \in DOMAIN s.Users : s.Users[u].LocalUser = id}

IsLocalUser(s, id) == LocalUIDs(s, id) # {}

UIDOf(s, id) == CHOOSE u \in LocalUIDs(s, id) : TRUE

\* UserClient.nickUhost.
nickUhost(u) == u.DisplayNick \o <<"!", "~">> \o u.Username \o <<"@">> \o u.IP

\* NewUserClient: the user made from a Client.  Its SendQueueExceeded starts
\* false: the flag is not among the fields copied.
NewUserClient(c, id) ==
  [DisplayNick |-> c.PreRegDisplayNick, Username |-> c.PreRegUser,
   RealName |-> c.PreRegRealName, IP |-> <<"i", "p">>, HopCount |-> 0,
   NickTS |-> 0, Modes |-> {}, Channels |-> {}, Link |-> 0, LocalUser |-> id]

\* The elements of set S in the order of sequence ord.
InOrder(ord, S) == SelectSeq(ord, LAMBDA x : x \in S)

\* Remove uid from channel name's members; drop the channel when that leaves
\* it empty.
RemoveMember(chs, name, uid) ==
  IF ~Has(chs, name) THEN chs
  ELSE LET ms == chs[name].Members \ {uid} IN
       IF ms = {} THEN Del(chs, name)
       ELSE [chs EXCEPT ![name].Members = ms]

RECURSIVE RemoveFromAll(_, _, _)
RemoveFromAll(chs, names, uid) ==
  IF names = {} THEN chs
  ELSE LET n == CHOOSE x \in names : TRUE IN
       RemoveFromAll(RemoveMember(chs, n, uid), names \ {n}, uid)

\* What a handler does once its waiting sends are through.
Finish(s, cont) ==
  IF cont.op = "register" THEN
       \* completeRegistration: leave the unregistered table, enter the user
       \* table.
       LET c   == s.UnregisteredClients[cont.id]
           uid == getTS6UID(cont.id).val
       IN [s EXCEPT !.UnregisteredClients = Del(@, cont.id),
                    !.Users = Put(@, uid, NewUserClient(c, cont.id)),
                    !.SendQueueExceeded[cont.id] = FALSE]
  ELSE IF cont.op = "part" THEN
       \* UserClient.part: both directions of the membership, then the
       \* channel if it is empty.
       LET uid == UIDOf(s, cont.id) IN
       [s EXCEPT !.Channels = RemoveMember(@, cont.arg, uid),
                 !.Users[uid].Channels = @ \ {cont.arg}]
  ELSE IF cont.op = "quit" THEN
       \* UserClient.quit: every channel, the nick, the queue, the user.
       LET uid == UIDOf(s, cont.id)
           u   == s.Users[uid]
           s1  == [s EXCEPT !.Channels = RemoveFromAll(@, u.Channels, uid),
                            !.Nicks = Del(@, canonicalizeNick(u.DisplayNick))]
           s2  == closeWriteChan(s1, cont.id)
       IN [s2 EXCEPT !.Users = Del(@, uid)]
  ELSE s

\* Channel sends one after the other; the first that finds its queue full
\* leaves the core waiting there with the rest still to do.  A send on a
\* closed channel panics.
RECURSIVE DoSends(_, _, _)
DoSends(s, sends, cont) ==
  IF s.core.pc = "panicked" THEN s
  ELSE IF sends = <<>> THEN Finish([s EXCEPT !.core = IdleCore], cont)
  ELSE LET h == Head(sends) IN
       IF h.to \in s.closed THEN Panic(s)
       ELSE IF Len(s.WriteChan[h.to]) < WriteChanCap
         THEN DoSends([s EXCEPT !.WriteChan[h.to] = Append(@, h.m)],
                      Tail(sends), cont)
       ELSE [s EXCEPT !.core = [pc |-> "blocked", sends |-> sends,
                                cont |-> cont]]

Send(to, m) == [to |-> to, m |-> m]

\* UserClient.messageFromServer.
UserMessageFromServer(s, id, command, params) ==
  LET u    == s.Users[UIDOf(s, id)]
      nick == IF Len(u.DisplayNick) > 0 THEN u.DisplayNick ELSE <<"*">>
      ps   == IF isNumericCommand(command) THEN <<nick>> \o params ELSE params
  IN Send(id, Msg(ServerName, command, ps))

\* UserClient.messageClient.
messageClient(u, toID, command, params) ==
  Send(toID, Msg(nickUhost(u), command, params))

\* completeRegistration with 003 sent before 002.
completeRegistrationSwapped(s, id) ==
  LET c  == s.UnregisteredClients[id]
      u  == NewUserClient(c, id)
      s1 == ClientMessageFromServer(s, id, "001", <<<<"Welcome">> \o nickUhost(u)>>)
      s2 == ClientMessageFromServer(s1, id, "003", <<<<"This server was created">>>>)
      s3 == ClientMessageFromServer(s2, id, "002", <<<<"Your host is">> \o ServerName>>)
      s4 == ClientMessageFromServer(s3, id, "004",
                                    <<ServerName, <<"v">>, <<"o">>, <<"n">>>>)
      lusers == Send(id, Msg(ServerName, "251", <<u.DisplayNick, <<"There are users">>>>))
      motd   == Send(id, Msg(ServerName, "422", <<u.DisplayNick, <<"MOTD File is missing">>>>))
  IN DoSends(s4, <<lusers, motd>>, [op |-> "register", id |-> id, arg |-> <<>>])

(***************************************************************************)
(* Registration of a user.                                                 *)
(***************************************************************************)
\* Client.completeRegistration: 001..004 through the Client (sends that
\* never wait), LUSERS and MOTD through the new UserClient (sends that
\* wait), then the move from the unregistered table to the user table.
completeRegistration(s, id) ==
  LET c  == s.UnregisteredClients[id]
      u  == NewUserClient(c, id)
      s1 == ClientMessageFromServer(s, id, "001", <<<<"Welcome">> \o nickUhost(u)>>)
      s2 == ClientMessageFromServer(s1, id, "002", <<<<"Your host is">> \o ServerName>>)
      s3 == ClientMessageFromServer(s2, id, "003", <<<<"This server was created">>>>)
      s4 == ClientMessageFromServer(s3, id, "004",
                                    <<ServerName, <<"v">>, <<"o">>, <<"n">>>>)
      lusers == Send(id, Msg(ServerName, "251", <<u.DisplayNick, <<"There are users">>>>))
      motd   == Send(id, Msg(ServerName, "422", <<u.DisplayNick, <<"MOTD File is missing">>>>))
  IN DoSends(s4, <<lusers, motd>>, [op |-> "register", id |-> id, arg |-> <<>>])

\* NICK from an unregistered connection: validate the nick, refuse one whose
\* canonical form is in the nick table, reserve it for this connection's
\* UID, free the nick reserved before, and complete the registration when
\* USER has been seen.
nickCommand(s, id, m) ==
  LET c == s.UnregisteredClients[id] IN
  IF Len(m.Params) = 0
    THEN ClientMessageFromServer(s, id, "431", <<<<"No nickname given">>>>)
  ELSE LET nick  == m.Params[1]
           canon == canonicalizeNick(nick)
       IN
       IF ~isValidNick(MaxNickLength, nick)
         THEN ClientMessageFromServer(s, id, "432", <<nick, <<"Erroneous nickname">>>>)
       ELSE IF Has(s.Nicks, canon)
         THEN ClientMessageFromServer(s, id, "433", <<nick, <<"Nickname is already in use">>>>)
       ELSE LET freed == IF Len(c.PreRegDisplayNick) > 0
                           THEN Del(s.Nicks, canonicalizeNick(c.PreRegDisplayNick))
                           ELSE s.Nicks
                s1 == [s EXCEPT !.Nicks = Put(freed, canon, getTS6UID(id).val),
                                !.UnregisteredClients[id].PreRegDisplayNick = nick]
            IN IF Len(c.PreRegUser) > 0 THEN completeRegistration(s1, id) ELSE s1

\* USER from an unregistered connection: <user> <mode> <unused> <realname>.
userCommand(s, id, m) ==
  LET c == s.UnregisteredClients[id] IN
  IF Len(m.Params) < 4
    THEN ClientMessageFromServer(s, id, "461", <<<<"USER">>, <<"Not enough parameters">>>>)
  ELSE IF ~isValidUser(MaxNickLength, m.Params[1])
    THEN ClientMessageFromServer(s, id, "461", <<<<"USER">>, <<"Invalid username">>>>)
  ELSE LET s1 == [s EXCEPT !.UnregisteredClients[id].PreRegUser = m.Params[1],
                           !.UnregisteredClients[id].PreRegRealName = m.Params[4]]
       IN IF Len(c.PreRegDisplayNick) > 0 THEN completeRegistration(s1, id) ELSE s1

(***************************************************************************)
(* LocalServer: a directly linked peer.                                    *)
(***************************************************************************)
\* NewLocalServer: the burst flags of a fresh link.
NewLocalServer(c) ==
  [SID |-> c.PreRegTS6SID, Name |-> c.PreRegServerName,
   GotPING |-> FALSE, GotPONG |-> FALSE, Bursting |-> TRUE]

\* LocalServer.messageFromServer.
ServerMessageFromServer(s, id, command, params) ==
  LET ps == IF isNumericCommand(command)
              THEN <<s.LocalServers[id].SID>> \o params ELSE params
  IN maybeQueueMessage(s, id, Msg(TS6SID, command, ps))

\* LocalServer.quit.
ServerQuit(s, id, msg) ==
  IF ~Has(s.LocalServers, id) THEN s
  ELSE LET s1 == ServerMessageFromServer(s, id, "ERROR", <<msg>>)
           s2 == closeWriteChan(s1, id)
       IN [s2 EXCEPT !.LocalServers = Del(@, id),
                     !.Servers = Del(@, s.LocalServers[id].SID)]

\* Catbox.noticeOpers: a notice to every operator that is a local user.
RECURSIVE noticeOpersTo(_, _, _)
noticeOpersTo(s, uids, text) ==
  IF uids = {} THEN s
  ELSE LET u == CHOOSE x \in uids : TRUE IN
       noticeOpersTo(maybeQueueMessage(s, s.Users[u].LocalUser,
                                       Msg(ServerName, "NOTICE",
                                           <<s.Users[u].DisplayNick, text>>)),
                     uids \ {u}, text)

noticeOpers(s, text) ==
  noticeOpersTo(s, {u \in s.Opers : Has(s.Users, u) /\ s.Users[u].LocalUser # 0},
                text)

\* The elements of a set as a sequence, in one fixed order (Go's map order
\* is arbitrary; no queue is read for the order within one table).
RECURSIVE SetToSeq(_)
SetToSeq(S) ==
  IF S = {} THEN <<>>
  ELSE LET x == CHOOSE y \in S : TRUE IN <<x>> \o SetToSeq(S \ {x})

RECURSIVE QueueAll(_, _, _)
QueueAll(s, id, ms) ==
  IF ms = <<>> THEN s
  ELSE QueueAll(maybeQueueMessage(s, id, Head(ms)), id, Tail(ms))

\* The SIDs of sendBurst without the check for the peer itself.
BurstSIDsWithSelf(s, id) ==
  LET sids == SetToSeq(DOMAIN s.Servers)
  IN [i \in DOMAIN sids |->
        Msg(TS6SID, "SID", <<s.Servers[sids[i]].Name,
                             FormatInt(s.Servers[sids[i]].HopCount + 1),
                             sids[i], s.Servers[sids[i]].Description>>)]

\* The SID, UID and SJOIN messages of LocalServer.sendBurst, in that order.
BurstSIDs(s, id) ==
  LET sids == SetToSeq({x \in DOMAIN s.Servers : s.Servers[x].LocalServer # id})
  IN [i \in DOMAIN sids |->
        Msg(TS6SID, "SID", <<s.Servers[sids[i]].Name,
                             FormatInt(s.Servers[sids[i]].HopCount + 1),
                             sids[i], s.Servers[sids[i]].Description>>)]

modesString(u) ==
  <<"+">> \o (IF "i" \in u.Modes THEN <<"i">> ELSE <<>>)
          \o (IF "o" \in u.Modes THEN <<"o">> ELSE <<>>)

BurstUIDs(s) ==
  LET uids == SetToSeq(DOMAIN s.Users)
  IN [i \in DOMAIN uids |->
        LET u == s.Users[uids[i]] IN
        Msg(TS6SID, "UID", <<u.DisplayNick, FormatInt(u.HopCount + 1),
                             FormatInt(u.NickTS), modesString(u), u.Username,
                             <<"h">>, u.IP, uids[i], u.RealName>>)]

BurstSJOINs(s) ==
  LET pairs == SetToSeq({<<n, u>> \in (DOMAIN s.Channels) \X (DOMAIN s.Users
                                        \cup UNION {s.Channels[n].Members : n \in DOMAIN s.Channels}) :
                           u \in s.Channels[n].Members})
  IN [i \in DOMAIN pairs |->
        Msg(TS6SID, "SJOIN", <<FormatInt(s.Channels[pairs[i][1]].TS),
                               pairs[i][1], <<"+", "n", "t">>, pairs[i][2]>>)]

\* LocalServer.sendBurst with the channels before the users.
sendBurstChannelsFirst(s, id) ==
  QueueAll(s, id, BurstSIDs(s, id) \o BurstSJOINs(s) \o BurstUIDs(s))

sendBurst(s, id) ==
  QueueAll(s, id, BurstSIDs(s, id) \o BurstUIDs(s) \o BurstSJOINs(s))

\* LocalServer.sendPING / Client.sendPING.
sendPING(s, id) == maybeQueueMessage(s, id, Msg(<<>>, "PING", <<TS6SID>>))

\* registerServer that leaves the connection in the unregistered table.
registerServerKeep(s, id) ==
  LET c  == s.UnregisteredClients[id]
      ls == NewLocalServer(c)
      s2 == [s EXCEPT !.LocalServers = Put(@, id, ls),
                      !.Servers = Put(@, ls.SID,
                                      [Name |-> ls.Name, HopCount |-> 1,
                                       Description |-> <<"d">>, Link |-> id,
                                       LocalServer |-> id])]
  IN noticeOpers(s2, <<"Established link to">> \o ls.Name)

\* Client.registerServer: free a nick the connection may have taken, make
\* the LocalServer, move it between the tables, enter it among the servers.
registerServer(s, id) ==
  LET c  == s.UnregisteredClients[id]
      ls == NewLocalServer(c)
      s1 == IF Len(c.PreRegDisplayNick) > 0
              THEN [s EXCEPT !.Nicks = Del(@, canonicalizeNick(c.PreRegDisplayNick))]
              ELSE s
      s2 == [s1 EXCEPT !.UnregisteredClients = Del(@, id),
                       !.LocalServers = Put(@, id, ls),
                       !.Servers = Put(@, ls.SID,
                                       [Name |-> ls.Name, HopCount |-> 1,
                                        Description |-> <<"d">>, Link |-> id,
                                        LocalServer |-> id])]
  IN noticeOpers(s2, <<"Established link to">> \o ls.Name)

(***************************************************************************)
(* The TS6 handshake of an unregistered connection.                        *)
(***************************************************************************)
\* Client.sendPASS, sendCAPAB, sendSERVER, sendSVINFO: queue the message and
\* record that it was sent.
sendHandshake(s, id, what, m) ==
  [maybeQueueMessage(s, id, m) EXCEPT !.UnregisteredClients[id].Sent = @ \cup {what}]

sendPASS(s, id) ==
  sendHandshake(s, id, "PASS", Msg(<<>>, "PASS", <<<<"p", "w">>, <<"T", "S">>, <<"6">>, TS6SID>>))

sendCAPAB(s, id) ==
  sendHandshake(s, id, "CAPAB", Msg(<<>>, "CAPAB", <<<<"Q", "S", " ", "E", "N", "C", "A", "P">>>>))

sendSERVER(s, id) ==
  sendHandshake(s, id, "SERVER", Msg(<<>>, "SERVER", <<ServerName, <<"1">>, <<"d">>>>))

sendSVINFO(s, id) ==
  sendHandshake(s, id, "SVINFO", Msg(<<>>, "SVINFO", <<<<"6">>, <<"6">>, <<"0">>, <<"t">>>>))

\* PASS <password> TS <version> <SID>: the credentials and the SID format.
passCommand(s, id, m) ==
  IF Len(m.Params) < 4
    THEN ClientMessageFromServer(s, id, "461", <<<<"PASS">>, <<"Not enough parameters">>>>)
  ELSE IF "PASS" \in s.UnregisteredClients[id].Got
    THEN ClientQuit(s, id, <<"Double PASS">>)
  ELSE IF ~isValidSID(m.Params[4]) \/ m.Params[4] = TS6SID
            \/ Has(s.Servers, m.Params[4])
    THEN ClientQuit(s, id, <<"Malformed SID">>)
  ELSE [s EXCEPT !.UnregisteredClients[id].PreRegPass = m.Params[1],
                 !.UnregisteredClients[id].PreRegTS6SID = m.Params[4],
                 !.UnregisteredClients[id].Got = @ \cup {"PASS"}]

\* CAPAB <capabilities>: after PASS.
capabCommand(s, id, m) ==
  IF "PASS" \notin s.UnregisteredClients[id].Got
    THEN ClientQuit(s, id, <<"PASS first">>)
  ELSE IF Len(m.Params) < 1
    THEN ClientMessageFromServer(s, id, "461", <<<<"CAPAB">>, <<"Not enough parameters">>>>)
  ELSE [s EXCEPT !.UnregisteredClients[id].Got = @ \cup {"CAPAB"}]

\* SERVER <name> <hopcount> <description>: after PASS and CAPAB; answered
\* with our PASS, CAPAB and SERVER unless we sent them (we initiated).
serverCommand(s, id, m) ==
  LET c == s.UnregisteredClients[id] IN
  IF ~({"PASS", "CAPAB"} \subseteq c.Got) \/ "SERVER" \in c.Got
    THEN ClientQuit(s, id, <<"Out of order SERVER">>)
  ELSE IF Len(m.Params) < 3
    THEN ClientMessageFromServer(s, id, "461", <<<<"SERVER">>, <<"Not enough parameters">>>>)
  ELSE LET s1 == [s EXCEPT !.UnregisteredClients[id].PreRegServerName = m.Params[1],
                           !.UnregisteredClients[id].Got = @ \cup {"SERVER"}]
       IN IF "SERVER" \in c.Sent THEN s1
          ELSE sendSERVER(sendCAPAB(sendPASS(s1, id), id), id)

\* SVINFO <TS version> <min TS version> 0 <time>: after SERVER.  Answered
\* with our SVINFO; then the connection becomes a LocalServer, gets our
\* burst and our PING.
svinfoCommand(s, id, m) ==
  LET c == s.UnregisteredClients[id] IN
  IF "SERVER" \notin c.Got \/ Has(s.Servers, c.PreRegTS6SID)
    THEN ClientQuit(s, id, <<"Unexpected SVINFO">>)
  ELSE IF Len(m.Params) < 4
    THEN ClientMessageFromServer(s, id, "461", <<<<"SVINFO">>, <<"Not enough parameters">>>>)
  ELSE sendPING(sendBurst(registerServer(sendSVINFO(s, id), id), id), id)

\* Client.pingCommand / pongCommand before registration: answer a PING.
clientPingCommand(s, id, m) ==
  IF Len(m.Params) < 1
    THEN ClientMessageFromServer(s, id, "461", <<<<"PING">>, <<"Not enough parameters">>>>)
  ELSE maybeQueueMessage(s, id, Msg(ServerName, "PONG", <<ServerName, m.Params[1]>>))

\* Client.handleMessage that quits a connection for a command it does not
\* know.
ClientHandleMessageStrict(s, id, m) ==
  IF m.Command = "CAP" THEN s
  ELSE IF m.Command = "NOTICE" THEN s
  ELSE IF m.Command = "NICK" THEN nickCommand(s, id, m)
  ELSE IF m.Command = "USER" THEN userCommand(s, id, m)
  ELSE IF m.Command = "PASS" THEN passCommand(s, id, m)
  ELSE IF m.Command = "CAPAB" THEN capabCommand(s, id, m)
  ELSE IF m.Command = "SERVER" THEN serverCommand(s, id, m)
  ELSE IF m.Command = "SVINFO" THEN svinfoCommand(s, id, m)
  ELSE IF m.Command = "PING" THEN clientPingCommand(s, id, m)
  ELSE IF m.Command = "PONG" THEN s
  ELSE IF m.Command = "ERROR" THEN ClientQuit(s, id, <<"Bye">>)
  ELSE ClientQuit(s, id, <<"You have not registered.">>)

\* Client.handleMessage.
ClientHandleMessage(s, id, m) ==
  IF m.Command = "CAP" THEN s
  ELSE IF m.Command = "NOTICE" THEN s
  ELSE IF m.Command = "NICK" THEN nickCommand(s, id, m)
  ELSE IF m.Command = "USER" THEN userCommand(s, id, m)
  ELSE IF m.Command = "PASS" THEN passCommand(s, id, m)
  ELSE IF m.Command = "CAPAB" THEN capabCommand(s, id, m)
  ELSE IF m.Command = "SERVER" THEN serverCommand(s, id, m)
  ELSE IF m.Command = "SVINFO" THEN svinfoCommand(s, id, m)
  ELSE IF m.Command = "PING" THEN clientPingCommand(s, id, m)
  ELSE IF m.Command = "PONG" THEN s
  ELSE IF m.Command = "ERROR" THEN ClientQuit(s, id, <<"Bye">>)
  ELSE ClientMessageFromServer(s, id, "451", <<<<"You have not registered.">>>>)

(***************************************************************************)
(* Messages from a linked server.                                          *)
(***************************************************************************)
\* pingCommand that answers without looking the origin up.
pingCommandAnyOrigin(s, id, m) ==
  IF Len(m.Params) < 1
    THEN ServerMessageFromServer(s, id, "461", <<<<"PING">>, <<"Not enough parameters">>>>)
  ELSE LET ls  == s.LocalServers[id]
           sid == IF Len(m.Prefix) = 0 THEN ls.SID ELSE m.Prefix
           s1  == maybeQueueMessage(s, id, Msg(TS6SID, "PONG", <<ServerName, sid>>))
       IN IF ls.Bursting /\ sid = ls.SID
            THEN LET s2 == [s1 EXCEPT !.LocalServers[id].GotPING = TRUE] IN
                 IF ls.GotPONG
                   THEN [noticeOpers(s2, <<"Burst over">> \o ls.Name)
                           EXCEPT !.LocalServers[id].Bursting = FALSE]
                   ELSE s2
            ELSE s1

\* LocalServer.pingCommand.
pingCommand(s, id, m) ==
  IF Len(m.Params) < 1
    THEN ServerMessageFromServer(s, id, "461", <<<<"PING">>, <<"Not enough parameters">>>>)
  ELSE LET ls  == s.LocalServers[id]
           sid == IF Len(m.Prefix) = 0 THEN ls.SID ELSE m.Prefix
       IN
       IF ~Has(s.Servers, sid)
         THEN maybeQueueMessage(s, id, Msg(TS6SID, "402", <<sid, <<"No such server">>>>))
       ELSE LET s1 == maybeQueueMessage(s, id, Msg(TS6SID, "PONG", <<ServerName, sid>>))
            IN IF ls.Bursting /\ sid = ls.SID
                 THEN LET s2 == [s1 EXCEPT !.LocalServers[id].GotPING = TRUE] IN
                      IF ls.GotPONG
                        THEN [noticeOpers(s2, <<"Burst over">> \o ls.Name)
                                EXCEPT !.LocalServers[id].Bursting = FALSE]
                        ELSE s2
                 ELSE s1

\* pongCommand that ends the burst without looking at GotPING.
pongCommandEager(s, id, m) ==
  LET ls == s.LocalServers[id] IN
  IF Len(m.Params) < 2
    THEN ServerMessageFromServer(s, id, "461", <<<<"SVINFO">>, <<"Not enough parameters">>>>)
  ELSE IF m.Prefix # ls.SID THEN ServerQuit(s, id, <<"Unknown prefix">>)
  ELSE IF m.Params[1] # ls.Name THEN ServerQuit(s, id, <<"Unknown server name">>)
  ELSE IF m.Params[2] # TS6SID THEN ServerQuit(s, id, <<"Unknown SID">>)
  ELSE LET s1 == [s EXCEPT !.LocalServers[id].GotPONG = TRUE] IN
       IF ls.Bursting
         THEN [noticeOpers(s1, <<"Burst over">> \o ls.Name)
                 EXCEPT !.LocalServers[id].Bursting = FALSE]
         ELSE s1

\* LocalServer.pongCommand.
pongCommand(s, id, m) ==
  LET ls == s.LocalServers[id] IN
  IF Len(m.Params) < 2
    THEN ServerMessageFromServer(s, id, "461", <<<<"SVINFO">>, <<"Not enough parameters">>>>)
  ELSE IF m.Prefix # ls.SID THEN ServerQuit(s, id, <<"Unknown prefix">>)
  ELSE IF m.Params[1] # ls.Name THEN ServerQuit(s, id, <<"Unknown server name">>)
  ELSE IF m.Params[2] # TS6SID THEN ServerQuit(s, id, <<"Unknown SID">>)
  ELSE LET s1 == [s EXCEPT !.LocalServers[id].GotPONG = TRUE] IN
       IF ls.Bursting /\ ls.GotPING
         THEN [noticeOpers(s1, <<"Burst over">> \o ls.Name)
                 EXCEPT !.LocalServers[id].Bursting = FALSE]
         ELSE s1

\* The mode letters a UID's mode string sets: i and o, others are skipped.
UmodesOf(x) == {x[i] : i \in 2..Len(x)} \cap {"i", "o"}

\* uidCommand without the look-up of the nick in the nick table.
uidCommandNoCollision(s, id, m) ==
  LET n == Len(m.Params) IN
  IF ~isValidSID(m.Prefix) THEN ServerQuit(s, id, <<"Invalid SID">>)
  ELSE IF ~Has(s.Servers, m.Prefix) THEN ServerQuit(s, id, <<"Message from unknown server">>)
  ELSE IF n < 1 THEN Panic(s)
  ELSE IF ~isValidNick(MaxNickLength, m.Params[1]) THEN ServerQuit(s, id, <<"Invalid NICK!">>)
  ELSE IF n < 2 THEN Panic(s)
  ELSE IF ParseInt(m.Params[2], 8).err THEN ServerQuit(s, id, <<"Invalid hop count">>)
  ELSE IF n < 3 THEN Panic(s)
  ELSE IF ParseInt(m.Params[3], 64).err THEN ServerQuit(s, id, <<"Invalid nick TS">>)
  ELSE IF n < 4 THEN Panic(s)
  ELSE IF Len(m.Params[4]) > 0 /\ m.Params[4][1] # "+" THEN ServerQuit(s, id, <<"Malformed umode">>)
  ELSE IF n < 5 THEN Panic(s)
  ELSE IF ~isValidUser(MaxNickLength, m.Params[5]) THEN ServerQuit(s, id, <<"Invalid username">>)
  ELSE IF n < 8 THEN Panic(s)
  ELSE IF ~isValidUID(m.Params[8]) THEN ServerQuit(s, id, <<"Invalid UID">>)
  ELSE IF n < 9 THEN Panic(s)
  ELSE IF ~isValidRealName(m.Params[9]) THEN ServerQuit(s, id, <<"Invalid real name">>)
  ELSE LET uid == m.Params[8]
           u   == [DisplayNick |-> m.Params[1], Username |-> m.Params[5],
                   RealName |-> m.Params[9], IP |-> m.Params[7],
                   HopCount |-> ParseInt(m.Params[2], 8).val,
                   NickTS |-> ParseInt(m.Params[3], 64).val,
                   Modes |-> UmodesOf(m.Params[4]), Channels |-> {},
                   Link |-> id, LocalUser |-> 0]
       IN [s EXCEPT !.Opers = IF "o" \in u.Modes THEN @ \cup {uid} ELSE @,
                    !.Nicks = Put(@, canonicalizeNick(u.DisplayNick), uid),
                    !.Users = Put(@, uid, u)]

\* LocalServer.uidCommand.  Reading a parameter the message does not have is
\* an index-out-of-range panic.
uidCommand(s, id, m) ==
  LET n == Len(m.Params) IN
  IF ~isValidSID(m.Prefix) THEN ServerQuit(s, id, <<"Invalid SID">>)
  ELSE IF ~Has(s.Servers, m.Prefix) THEN ServerQuit(s, id, <<"Message from unknown server">>)
  ELSE IF n < 1 THEN Panic(s)
  ELSE IF ~isValidNick(MaxNickLength, m.Params[1]) THEN ServerQuit(s, id, <<"Invalid NICK!">>)
  ELSE IF Has(s.Nicks, canonicalizeNick(m.Params[1])) THEN ServerQuit(s, id, <<"Nick collision">>)
  ELSE IF n < 2 THEN Panic(s)
  ELSE IF ParseInt(m.Params[2], 8).err THEN ServerQuit(s, id, <<"Invalid hop count">>)
  ELSE IF n < 3 THEN Panic(s)
  ELSE IF ParseInt(m.Params[3], 64).err THEN ServerQuit(s, id, <<"Invalid nick TS">>)
  ELSE IF n < 4 THEN Panic(s)
  ELSE IF Len(m.Params[4]) > 0 /\ m.Params[4][1] # "+" THEN ServerQuit(s, id, <<"Malformed umode">>)
  ELSE IF n < 5 THEN Panic(s)
  ELSE IF ~isValidUser(MaxNickLength, m.Params[5]) THEN ServerQuit(s, id, <<"Invalid username">>)
  ELSE IF n < 8 THEN Panic(s)
  ELSE IF ~isValidUID(m.Params[8]) THEN ServerQuit(s, id, <<"Invalid UID">>)
  ELSE IF n < 9 THEN Panic(s)
  ELSE IF ~isValidRealName(m.Params[9]) THEN ServerQuit(s, id, <<"Invalid real name">>)
  ELSE LET uid == m.Params[8]
           u   == [DisplayNick |-> m.Params[1], Username |-> m.Params[5],
                   RealName |-> m.Params[9], IP |-> m.Params[7],
                   HopCount |-> ParseInt(m.Params[2], 8).val,
                   NickTS |-> ParseInt(m.Params[3], 64).val,
                   Modes |-> UmodesOf(m.Params[4]), Channels |-> {},
                   Link |-> id, LocalUser |-> 0]
       IN [s EXCEPT !.Opers = IF "o" \in u.Modes THEN @ \cup {uid} ELSE @,
                    !.Nicks = Put(@, canonicalizeNick(u.DisplayNick), uid),
                    !.Users = Put(@, uid, u)]

\* privmsgCommand that rewrites source and target for a remote target too.
privmsgCommandRewrite(s, id, m) ==
  IF Len(m.Params) = 0
    THEN ServerMessageFromServer(s, id, "411", <<<<"No recipient given (PRIVMSG)">>>>)
  ELSE IF Len(m.Params) = 1
    THEN ServerMessageFromServer(s, id, "412", <<<<"No text to send">>>>)
  ELSE IF ~isValidUID(m.Prefix) THEN ServerQuit(s, id, <<"Invalid source">>)
  ELSE IF ~Has(s.Users, m.Prefix) THEN ServerQuit(s, id, <<"I don't know this source">>)
  ELSE IF isValidUID(m.Params[1]) /\ Has(s.Users, m.Params[1])
    THEN LET targetUser == s.Users[m.Params[1]] IN
         IF targetUser.LocalUser # 0
           THEN maybeQueueMessage(s, targetUser.LocalUser,
                  Msg(nickUhost(s.Users[m.Prefix]), m.Command,
                      [m.Params EXCEPT ![1] = targetUser.DisplayNick]))
           ELSE maybeQueueMessage(s, targetUser.Link,
                  Msg(nickUhost(s.Users[m.Prefix]), m.Command,
                      [m.Params EXCEPT ![1] = targetUser.DisplayNick]))
  ELSE s

\* privmsgCommand that hands a local user the message as it came, source and
\* target still UIDs.
privmsgCommandRaw(s, id, m) ==
  IF Len(m.Params) = 0
    THEN ServerMessageFromServer(s, id, "411", <<<<"No recipient given (PRIVMSG)">>>>)
  ELSE IF Len(m.Params) = 1
    THEN ServerMessageFromServer(s, id, "412", <<<<"No text to send">>>>)
  ELSE IF ~isValidUID(m.Prefix) THEN ServerQuit(s, id, <<"Invalid source">>)
  ELSE IF ~Has(s.Users, m.Prefix) THEN ServerQuit(s, id, <<"I don't know this source">>)
  ELSE IF isValidUID(m.Params[1]) /\ Has(s.Users, m.Params[1])
    THEN LET targetUser == s.Users[m.Params[1]] IN
         IF targetUser.LocalUser # 0
           THEN maybeQueueMessage(s, targetUser.LocalUser, m)
           ELSE maybeQueueMessage(s, targetUser.Link, m)
  ELSE s

\* LocalServer.privmsgCommand.
privmsgCommand(s, id, m) ==
  IF Len(m.Params) = 0
    THEN ServerMessageFromServer(s, id, "411", <<<<"No recipient given (PRIVMSG)">>>>)
  ELSE IF Len(m.Params) = 1
    THEN ServerMessageFromServer(s, id, "412", <<<<"No text to send">>>>)
  ELSE IF ~isValidUID(m.Prefix) THEN ServerQuit(s, id, <<"Invalid source">>)
  ELSE IF ~Has(s.Users, m.Prefix) THEN ServerQuit(s, id, <<"I don't know this source">>)
  ELSE IF isValidUID(m.Params[1]) /\ Has(s.Users, m.Params[1])
    THEN LET targetUser == s.Users[m.Params[1]] IN
         IF targetUser.LocalUser # 0
           THEN maybeQueueMessage(s, targetUser.LocalUser,
                  Msg(nickUhost(s.Users[m.Prefix]), m.Command,
                      [m.Params EXCEPT ![1] = targetUser.DisplayNick]))
           ELSE maybeQueueMessage(s, targetUser.Link, m)
  ELSE s

\* The loop that hands a message to every linked server but the one it came
\* from.
RECURSIVE PropagateTo(_, _, _)
PropagateTo(s, ids, m) ==
  IF ids = {} THEN s
  ELSE LET x == CHOOSE y \in ids : TRUE IN
       PropagateTo(maybeQueueMessage(s, x, m), ids \ {x}, m)

\* A propagation that does not leave out the link the message came from.
PropagateEcho(s, id, m) == PropagateTo(s, DOMAIN s.LocalServers, m)

Propagate(s, id, m) == PropagateTo(s, (DOMAIN s.LocalServers) \ {id}, m)

\* LocalServer.sidCommand.
sidCommand(s, id, m) ==
  IF ~isValidSID(m.Prefix) THEN ServerQuit(s, id, <<"Invalid origin">>)
  ELSE IF ~Has(s.Servers, m.Prefix) THEN ServerQuit(s, id, <<"Unknown origin">>)
  ELSE IF Len(m.Params) < 4
    THEN ServerMessageFromServer(s, id, "461", <<<<"SID">>, <<"Not enough parameters">>>>)
  ELSE IF ParseInt(m.Params[2], 8).err THEN ServerQuit(s, id, <<"Invalid hop count">>)
  ELSE IF ~isValidSID(m.Params[3]) THEN ServerQuit(s, id, <<"Invalid SID">>)
  ELSE Propagate([s EXCEPT !.Servers =
                     Put(@, m.Params[3],
                         [Name |-> m.Params[1],
                          HopCount |-> ParseInt(m.Params[2], 8).val,
                          Description |-> m.Params[4], Link |-> id,
                          LocalServer |-> 0])],
                 id, m)

\* The member loop of sjoinCommand: each UID is trimmed, checked and bound
\* into the channel; the first bad one tears the link down where the loop
\* stands, and the SJOIN is not propagated.
RECURSIVE sjoinMembers(_, _, _, _, _)
sjoinMembers(s, id, m, name, uidsRaw) ==
  IF uidsRaw = <<>> THEN Propagate(s, id, m)
  ELSE LET uidRaw == TrimLeftOpVoice(Head(uidsRaw)) IN
       IF ~isValidUID(uidRaw) THEN ServerQuit(s, id, <<"Invalid UID">>)
       ELSE IF ~Has(s.Users, uidRaw) THEN ServerQuit(s, id, <<"Unknown user">>)
       ELSE sjoinMembers([s EXCEPT !.Channels[name].Members = @ \cup {uidRaw},
                                   !.Users[uidRaw].Channels = @ \cup {name}],
                         id, m, name, Tail(uidsRaw))

\* sjoinCommand that propagates the SJOIN before it looks at the members.
sjoinCommandPropagateFirst(s, id, m) ==
  IF ~Has(s.Servers, m.Prefix) THEN ServerQuit(s, id, <<"Unknown server">>)
  ELSE IF Len(m.Params) < 4
    THEN ServerMessageFromServer(s, id, "461", <<<<"PING">>, <<"Not enough parameters">>>>)
  ELSE IF ParseInt(m.Params[1], 64).err THEN ServerQuit(s, id, <<"Invalid channel TS">>)
  ELSE LET name     == canonicalizeChannel(m.Params[2])
           s1       == IF Has(s.Channels, name) THEN s
                       ELSE [s EXCEPT !.Channels =
                               Put(@, name, [TS |-> ParseInt(m.Params[1], 64).val,
                                             Members |-> {}])]
           userList == IF Len(m.Params) > 4 THEN m.Params[5] ELSE m.Params[4]
       IN ServerQuit(Propagate(s1, id, m), id, <<"Unknown user">>)

\* LocalServer.sjoinCommand.
sjoinCommand(s, id, m) ==
  IF ~Has(s.Servers, m.Prefix) THEN ServerQuit(s, id, <<"Unknown server">>)
  ELSE IF Len(m.Params) < 4
    THEN ServerMessageFromServer(s, id, "461", <<<<"PING">>, <<"Not enough parameters">>>>)
  ELSE IF ParseInt(m.Params[1], 64).err THEN ServerQuit(s, id, <<"Invalid channel TS">>)
  ELSE LET name     == canonicalizeChannel(m.Params[2])
           s1       == IF Has(s.Channels, name) THEN s
                       ELSE [s EXCEPT !.Channels =
                               Put(@, name, [TS |-> ParseInt(m.Params[1], 64).val,
                                             Members |-> {}])]
           userList == IF Len(m.Params) > 4 THEN m.Params[5] ELSE m.Params[4]
       IN sjoinMembers(s1, id, m, name, Split(userList))

\* LocalServer.handleMessage.
ServerHandleMessage(s, id, m) ==
  IF m.Command = "PING" THEN pingCommand(s, id, m)
  ELSE IF m.Command = "PONG" THEN pongCommand(s, id, m)
  ELSE IF m.Command = "ERROR" THEN ServerQuit(s, id, <<"Bye">>)
  ELSE IF m.Command = "UID" THEN uidCommand(s, id, m)
  ELSE IF m.Command \in {"PRIVMSG", "NOTICE"} THEN privmsgCommand(s, id, m)
  ELSE IF m.Command = "ENCAP" THEN s
  ELSE IF m.Command = "SID" THEN sidCommand(s, id, m)
  ELSE IF m.Command = "SJOIN" THEN sjoinCommand(s, id, m)
  ELSE ServerMessageFromServer(s, id, "421", <<<<m.Command>>, <<"Unknown command">>>>)

(***************************************************************************)
(* Commands of a registered local user.                                    *)
(***************************************************************************)
\* The connections of the members of a channel that are local users.
LocalMemberIDs(s, members) ==
  {s.Users[x].LocalUser : x \in {y \in members : Has(s.Users, y) /\ s.Users[y].LocalUser # 0}}

\* UserClient.part telling the other members only, not the one that leaves.
partOthersOnly(s, id, channelName, message, ord) ==
  LET c    == s.Users[UIDOf(s, id)]
      name == canonicalizeChannel(channelName)
  IN
  IF ~isValidChannel(name)
    THEN DoSends(s, <<UserMessageFromServer(s, id, "403", <<name, <<"Invalid channel name">>>>)>>, NoCont)
  ELSE IF ~Has(s.Channels, name)
    THEN DoSends(s, <<UserMessageFromServer(s, id, "403", <<name, <<"No such channel">>>>)>>, NoCont)
  ELSE IF name \notin c.Channels
    THEN DoSends(s, <<UserMessageFromServer(s, id, "403", <<name, <<"You are not on that channel">>>>)>>, NoCont)
  ELSE LET to     == InOrder(ord, LocalMemberIDs(s, s.Channels[name].Members) \ {id})
           params == <<name>> \o (IF Len(message) > 0 THEN <<message>> ELSE <<>>)
       IN DoSends(s, [i \in DOMAIN to |-> messageClient(c, to[i], "PART", params)],
                  [op |-> "part", id |-> id, arg |-> name])

\* UserClient.part without the onChannel check.
partUnchecked(s, id, channelName, message, ord) ==
  LET c    == s.Users[UIDOf(s, id)]
      name == canonicalizeChannel(channelName)
  IN
  IF ~isValidChannel(name)
    THEN DoSends(s, <<UserMessageFromServer(s, id, "403", <<name, <<"Invalid channel name">>>>)>>, NoCont)
  ELSE IF ~Has(s.Channels, name)
    THEN DoSends(s, <<UserMessageFromServer(s, id, "403", <<name, <<"No such channel">>>>)>>, NoCont)
  ELSE LET to     == InOrder(ord, LocalMemberIDs(s, s.Channels[name].Members))
           params == <<name>> \o (IF Len(message) > 0 THEN <<message>> ELSE <<>>)
       IN DoSends(s, [i \in DOMAIN to |-> messageClient(c, to[i], "PART", params)],
                  [op |-> "part", id |-> id, arg |-> name])

\* UserClient.part.  ord is the order in which the members are visited.
part(s, id, channelName, message, ord) ==
  LET c    == s.Users[UIDOf(s, id)]
      name == canonicalizeChannel(channelName)
  IN
  IF ~isValidChannel(name)
    THEN DoSends(s, <<UserMessageFromServer(s, id, "403", <<name, <<"Invalid channel name">>>>)>>, NoCont)
  ELSE IF ~Has(s.Channels, name)
    THEN DoSends(s, <<UserMessageFromServer(s, id, "403", <<name, <<"No such channel">>>>)>>, NoCont)
  ELSE IF name \notin c.Channels
    THEN DoSends(s, <<UserMessageFromServer(s, id, "403", <<name, <<"You are not on that channel">>>>)>>, NoCont)
  ELSE LET to     == InOrder(ord, LocalMemberIDs(s, s.Channels[name].Members))
           params == <<name>> \o (IF Len(message) > 0 THEN <<message>> ELSE <<>>)
       IN DoSends(s, [i \in DOMAIN to |-> messageClient(c, to[i], "PART", params)],
                  [op |-> "part", id |-> id, arg |-> name])

\* The members' connections channel by channel, a connection as often as it
\* has channels among names.
RECURSIVE toldPerChannel(_, _, _)
toldPerChannel(s, ord, names) ==
  IF names = {} THEN <<>>
  ELSE LET n == CHOOSE x \in names : TRUE
       IN  InOrder(ord, LocalMemberIDs(s, s.Channels[n].Members))
             \o toldPerChannel(s, ord, names \ {n})

\* UserClient.quit without toldClients: every member of every channel of the
\* user is told, once per channel.
UserQuitPerChannel(s, id, msg, ord) ==
  LET uid     == UIDOf(s, id)
      c       == s.Users[uid]
      to      == toldPerChannel(s, ord, c.Channels \cap DOMAIN s.Channels)
      quits   == [i \in DOMAIN to |-> messageClient(c, to[i], "QUIT", <<msg>>)]
      error   == UserMessageFromServer(s, id, "ERROR", <<msg>>)
  IN DoSends(s, quits \o <<error>>, [op |-> "quit", id |-> id, arg |-> <<>>])

\* UserClient.quit.  Every member of a channel of the user is told once (the
\* user itself among them, or separately when it is on no channel), then the
\* user gets ERROR, and then its memberships, nick, queue and table entry go.
UserQuit(s, id, msg, ord) ==
  LET uid     == UIDOf(s, id)
      c       == s.Users[uid]
      members == UNION {s.Channels[n].Members : n \in c.Channels \cap DOMAIN s.Channels}
      told    == LocalMemberIDs(s, members)
      to      == InOrder(ord, told)
      quits   == [i \in DOMAIN to |-> messageClient(c, to[i], "QUIT", <<msg>>)]
      self    == IF id \in told THEN <<>> ELSE <<messageClient(c, id, "QUIT", <<msg>>)>>
      error   == UserMessageFromServer(s, id, "ERROR", <<msg>>)
  IN DoSends(s, quits \o self \o <<error>>, [op |-> "quit", id |-> id, arg |-> <<>>])

\* The commands of a registered user the core hands on.
UserHandleMessage(s, id, m, ord) ==
  IF m.Command = "PART"
    THEN IF Len(m.Params) < 1
           THEN DoSends(s, <<UserMessageFromServer(s, id, "461", <<<<"PART">>, <<"Not enough parameters">>>>)>>, NoCont)
           ELSE part(s, id, m.Params[1],
                     IF Len(m.Params) > 1 THEN m.Params[2] ELSE <<>>, ord)
  ELSE IF m.Command = "QUIT"
    THEN UserQuit(s, id, IF Len(m.Params) > 0 THEN m.Params[1] ELSE <<"Quit">>, ord)
  ELSE DoSends(s, <<UserMessageFromServer(s, id, "421", <<<<m.Command>>, <<"Unknown command">>>>)>>, NoCont)

(***************************************************************************)
(* The event core.                                                         *)
(***************************************************************************)
\* A message event: the handler of the table the connection is in; an event
\* of a connection that is in no table is dropped.
handleMessageEvent(s, id, m, ord) ==
  IF Has(s.UnregisteredClients, id) THEN ClientHandleMessage(s, id, m)
  ELSE IF IsLocalUser(s, id) THEN UserHandleMessage(s, id, m, ord)
  ELSE IF Has(s.LocalServers, id) THEN ServerHandleMessage(s, id, m)
  ELSE s

\* quitConnection that closes the queue of a connection that is in no table
\* once more.
quitConnectionAgain(s, id, msg, ord) ==
  IF Has(s.UnregisteredClients, id) THEN ClientQuit(s, id, msg)
  ELSE IF IsLocalUser(s, id) THEN UserQuit(s, id, msg, ord)
  ELSE IF Has(s.LocalServers, id) THEN ServerQuit(s, id, msg)
  ELSE closeWriteChan(s, id)

\* Quit a connection, whichever table it is in.
quitConnection(s, id, msg, ord) ==
  IF Has(s.UnregisteredClients, id) THEN ClientQuit(s, id, msg)
  ELSE IF IsLocalUser(s, id) THEN UserQuit(s, id, msg, ord)
  ELSE IF Has(s.LocalServers, id) THEN ServerQuit(s, id, msg)
  ELSE s

InSomeTable(s, id) ==
  Has(s.UnregisteredClients, id) \/ IsLocalUser(s, id) \/ Has(s.LocalServers, id)

(***************************************************************************)
(* What the peers send.                                                    *)
(***************************************************************************)
\* The SID, server name and first user of the peer on connection id.
PeerSID(id) == <<Digits[id + 1], "A", "A">>

PeerName(id) == <<"s", Digits[id + 1]>>

RemoteUID(id) == PeerSID(id) \o <<"A", "A", "A", "A", "A", "B">>

LocalUID(id) == getTS6UID(id).val

UnknownSID == <<"9", "X", "X">>

UnknownUID == UnknownSID \o <<"A", "A", "A", "A", "A", "A">>

NickInputs(errs) ==
  {<<"a", "l">>, <<"b", "o">>} \cup (IF errs THEN {<<"A", "l">>} ELSE {})

\* What the peer on connection id is: the first is a user's client, the last
\* a server, one in between either.
Roles(id) ==
  IF id = 1 THEN {"user"} ELSE IF id = MaxConns THEN {"server"} ELSE {"user", "server"}

\* Lines of a connection that has not registered.
ClientInputs(id, errs) ==
  (IF "user" \in Roles(id)
     THEN {Msg(<<>>, "NICK", <<n>>) : n \in NickInputs(errs)}
          \cup {Msg(<<>>, "USER", <<<<"u">>, <<"0">>, <<"*">>, <<"r">>>>)}
          \cup (IF errs THEN {Msg(<<>>, "JOIN", <<<<"#", "c">>>>)} ELSE {})
     ELSE {})
  \cup
  (IF "server" \in Roles(id)
     THEN {Msg(<<>>, "PASS", <<<<"p", "w">>, <<"T", "S">>, <<"6">>, PeerSID(id)>>),
           Msg(<<>>, "CAPAB", <<<<"Q", "S">>>>),
           Msg(<<>>, "SERVER", <<PeerName(id), <<"1">>, <<"d">>>>),
           Msg(<<>>, "SVINFO", <<<<"6">>, <<"6">>, <<"0">>, <<"t">>>>),
           Msg(<<>>, "ERROR", <<<<"bye">>>>)}
     ELSE {})

\* Lines of a registered user.
UserInputs ==
  {Msg(<<>>, "PART", <<<<"#", "c">>>>),
   Msg(<<>>, "PART", <<<<"#", "x">>>>),
   Msg(<<>>, "QUIT", <<<<"bye">>>>)}

UIDInputs(id) ==
  {Msg(p, "UID", <<n, <<"1">>, <<"5">>, <<"+">>, <<"u">>, <<"h">>, <<"0">>, u, <<"r">>>>) :
     p \in {PeerSID(id), UnknownSID}, n \in {<<"a", "l">>, <<"b", "o">>},
     u \in {RemoteUID(id), LocalUID(1)}}

SJOINInputs(id) ==
  {Msg(PeerSID(id), "SJOIN", <<<<"7">>, <<"#", "c">>, <<"+", "n">>, l>>) :
     l \in {<<"@">> \o RemoteUID(id), LocalUID(1), LocalUID(2),
            RemoteUID(id) \o <<" ">> \o UnknownUID, UnknownUID}}
  \cup {Msg(PeerSID(id), "SJOIN",
            <<<<"7">>, <<"#", "C">>, <<"+", "n">>, <<"+">> \o RemoteUID(id)>>)}

PRIVMSGInputs(id) ==
  {Msg(RemoteUID(id), "PRIVMSG", <<t, <<"h", "i">>>>) :
     t \in {RemoteUID(x) : x \in ConnIDs \ {id}} \cup {LocalUID(1)}}

\* Lines of a linked server.
ServerInputs(id) ==
  UIDInputs(id) \cup SJOINInputs(id) \cup PRIVMSGInputs(id)
  \cup {Msg(<<>>, "PING", <<PeerSID(id)>>),
        Msg(PeerSID(id), "PONG", <<PeerName(id), TS6SID>>),
        Msg(PeerSID(id), "SID", <<<<"s", "9">>, <<"2">>, UnknownSID, <<"d">>>>),
        Msg(<<>>, "ERROR", <<<<"bye">>>>)}

\* Lines of servers that link, introduce one user each and pass messages
\* between the users.
RouteUID(id) ==
  Msg(PeerSID(id), "UID",
      <<<<"u", Digits[id + 1]>>, <<"1">>, <<"5">>, <<"+">>, <<"u">>, <<"h">>,
        <<"0">>, RemoteUID(id), <<"r">>>>)

RouteInputs(id) ==
  IF Has(UnregisteredClients, id)
    THEN {Msg(<<>>, "PASS", <<<<"p", "w">>, <<"T", "S">>, <<"6">>, PeerSID(id)>>),
          Msg(<<>>, "CAPAB", <<<<"Q", "S">>>>),
          Msg(<<>>, "SERVER", <<PeerName(id), <<"1">>, <<"d">>>>),
          Msg(<<>>, "SVINFO", <<<<"6">>, <<"6">>, <<"0">>, <<"t">>>>)}
  ELSE IF Has(LocalServers, id)
    THEN {RouteUID(id), Msg(<<>>, "ERROR", <<<<"bye">>>>)}
         \cup {Msg(RemoteUID(id), c, <<RemoteUID(x), <<"h", "i">>>>) :
                 c \in {"PRIVMSG", "NOTICE"}, x \in ConnIDs}
  ELSE {}

\* Lines of servers that link, introduce a user and a server each, and
\* announce a channel.
FloodInputs(id) ==
  IF Has(UnregisteredClients, id)
    THEN {Msg(<<>>, "PASS", <<<<"p", "w">>, <<"T", "S">>, <<"6">>, PeerSID(id)>>),
          Msg(<<>>, "CAPAB", <<<<"Q", "S">>>>),
          Msg(<<>>, "SERVER", <<PeerName(id), <<"1">>, <<"d">>>>),
          Msg(<<>>, "SVINFO", <<<<"6">>, <<"6">>, <<"0">>, <<"t">>>>)}
  ELSE IF Has(LocalServers, id)
    THEN {RouteUID(id),
          Msg(PeerSID(id), "SID", <<<<"s", "9">>, <<"2">>, UnknownSID, <<"d">>>>),
          Msg(PeerSID(id), "SJOIN",
              <<<<"7">>, <<"#", "c">>, <<"+", "n">>, <<"@">> \o RemoteUID(id)>>),
          Msg(PeerSID(id), "SJOIN",
              <<<<"7">>, <<"#", "c">>, <<"+", "n">>, UnknownUID>>),
          Msg(PeerSID(id), "SJOIN",
              <<<<"7">>, <<"#", "c">>, <<"+", "n">>, <<"@", "x">>>>)}
  ELSE {}

\* Lines of users that register one after the other, of a server that links
\* and puts them on the channels #c and #d, and of the users leaving: by PART
\* of a channel they may be on, of one that does not exist and of an invalid
\* name, and by QUIT.
ChanNick(id) == <<"u", Digits[id + 1]>>

ChanInputs(id) ==
  IF Has(UnregisteredClients, id)
    THEN LET c == UnregisteredClients[id]
         IN  IF id < MaxConns
               THEN IF c.PreRegDisplayNick = <<>>
                      THEN {Msg(<<>>, "NICK", <<ChanNick(id)>>)}
                      ELSE {Msg(<<>>, "USER", <<<<"u">>, <<"0">>, <<"*">>, <<"r">>>>)}
             ELSE IF "PASS" \notin c.Got
               THEN {Msg(<<>>, "PASS", <<<<"p", "w">>, <<"T", "S">>, <<"6">>, PeerSID(id)>>)}
             ELSE IF "CAPAB" \notin c.Got
               THEN {Msg(<<>>, "CAPAB", <<<<"Q", "S">>>>)}
             ELSE IF "SERVER" \notin c.Got
               THEN {Msg(<<>>, "SERVER", <<PeerName(id), <<"1">>, <<"d">>>>)}
             ELSE {Msg(<<>>, "SVINFO", <<<<"6">>, <<"6">>, <<"0">>, <<"t">>>>)}
  ELSE IF IsLocalUser(Cur, id)
    THEN {Msg(<<>>, "PART", <<<<"#", "c">>>>),
          Msg(<<>>, "PART", <<<<"#", "D">>, <<"m">>>>),
          Msg(<<>>, "PART", <<<<"#", "x">>>>),
          Msg(<<>>, "PART", <<<<"c">>>>),
          Msg(<<>>, "QUIT", <<<<"bye">>>>)}
  ELSE IF Has(LocalServers, id)
    THEN {Msg(PeerSID(id), "SJOIN", <<<<"7">>, n, <<"+", "n">>, l>>) :
            n \in {<<"#", "c">>, <<"#", "d">>},
            l \in {LocalUID(1) \o <<" ">> \o LocalUID(2), LocalUID(1)}}
  ELSE {}

\* The SID of the server behind the peer on connection id.
BehindSID(id) == <<"9", "X", Digits[id + 1]>>

\* Lines of servers that go through the handshake in its order and then
\* introduce the server behind them, with a hop count of 2 or 7, and a user.
BurstInputs(id) ==
  IF Has(UnregisteredClients, id)
    THEN LET c == UnregisteredClients[id]
         IN  IF "PASS" \notin c.Got
               THEN {Msg(<<>>, "PASS", <<<<"p", "w">>, <<"T", "S">>, <<"6">>, PeerSID(id)>>)}
             ELSE IF "CAPAB" \notin c.Got
               THEN {Msg(<<>>, "CAPAB", <<<<"Q", "S">>>>)}
             ELSE IF "SERVER" \notin c.Got
               THEN {Msg(<<>>, "SERVER", <<PeerName(id), <<"1">>, <<"d">>>>)}
             ELSE {Msg(<<>>, "SVINFO", <<<<"6">>, <<"6">>, <<"0">>, <<"t">>>>)}
  ELSE IF Has(LocalServers, id)
    THEN {Msg(PeerSID(id), "SID", <<<<"b", Digits[id + 1]>>, h, BehindSID(id), <<"d">>>>) :
            h \in {<<"2">>, <<"7">>}}
         \cup {RouteUID(id)}
  ELSE {}

\* The PINGs of the server on connection id: in its own name with and
\* without prefix, in the name of the server behind it, in the name of a
\* server nobody introduced, and without a parameter.
LocalPINGs(id) ==
  {Msg(<<>>, "PING", <<PeerSID(id)>>),
   Msg(PeerSID(id), "PING", <<PeerName(id), TS6SID>>),
   Msg(BehindSID(id), "PING", <<<<"b", Digits[id + 1]>>>>),
   Msg(UnknownSID, "PING", <<<<"s", "9">>>>),
   Msg(<<>>, "PING", <<>>)}

\* Lines of users that register and then are silent, and of a server that
\* links, introduces a user and a server behind it, passes that user's
\* PRIVMSG and NOTICE to the local users, pings and answers the local PING.
LocalInputs(id) ==
  IF Has(UnregisteredClients, id) THEN ChanInputs(id)
  ELSE IF Has(LocalServers, id)
    THEN {RouteUID(id)}
         \cup {Msg(RemoteUID(id), c, <<LocalUID(x), <<"h", "i">>>>) :
                 c \in {"PRIVMSG", "NOTICE"}, x \in {1, 2}}
         \cup LocalPINGs(id)
         \cup {Msg(PeerSID(id), "SID", <<<<"b", Digits[id + 1]>>, <<"2">>, BehindSID(id), <<"d">>>>),
               Msg(PeerSID(id), "PONG", <<PeerName(id), TS6SID>>)}
  ELSE {}

\* Commands that Client.handleMessage has no case for.
UnregCommands ==
  {Msg(<<>>, "JOIN", <<<<"#", "c">>>>),
   Msg(<<>>, "QUIT", <<<<"b", "y", "e">>>>),
   Msg(<<"x">>, "PRIVMSG", <<<<"a", "l">>, <<"h", "i">>>>),
   Msg(<<>>, "FOO", <<>>)}

\* Lines of connections that have not registered and do not get as far: a
\* nick, the first three lines of the server handshake in any order, and
\* commands that need a registration.
UnregInputs(id) ==
  IF Has(UnregisteredClients, id)
    THEN UnregCommands
         \cup {Msg(<<>>, "NICK", <<ChanNick(id)>>),
               Msg(<<>>, "PASS", <<<<"p", "w">>, <<"T", "S">>, <<"6">>, PeerSID(id)>>),
               Msg(<<>>, "CAPAB", <<<<"Q", "S">>>>),
               Msg(<<>>, "SERVER", <<PeerName(id), <<"1">>, <<"d">>>>)}
  ELSE {}

\* The lines connection id may send in the current state.  mode "all": every
\* line of its table's alphabet; "plain": those but the lines that only draw
\* an error reply; "route": the lines of servers that pass messages;
\* "flood": the lines of servers that introduce servers and channels;
\* "chan": the lines of users on channels; "burst": the lines of servers
\* that link when others have linked; "local": the lines of a server whose
\* user writes to local users.
Inputs(id, mode) ==
  IF mode = "route" THEN RouteInputs(id)
  ELSE IF mode = "flood" THEN FloodInputs(id)
  ELSE IF mode = "chan" THEN ChanInputs(id)
  ELSE IF mode = "burst" THEN BurstInputs(id)
  ELSE IF mode = "local" THEN LocalInputs(id)
  ELSE IF mode = "unreg" THEN UnregInputs(id)
  ELSE IF Has(UnregisteredClients, id) THEN ClientInputs(id, mode = "all")
  ELSE IF IsLocalUser(Cur, id) THEN UserInputs
  ELSE IF Has(LocalServers, id) THEN ServerInputs(id)
  ELSE {}

\* The orders in which a loop over connections may visit them.
Orders == {o \in [ConnIDs -> ConnIDs] : \A i, j \in ConnIDs : i # j => o[i] # o[j]}

\* The orders that matter when connection id leaves: only a user's PART and
\* QUIT visit the other connections one by one.
OrdersFor(id) == IF IsLocalUser(Cur, id) THEN Orders ELSE {[i \in ConnIDs |-> i]}

(***************************************************************************)
(* Actions.                                                                *)
(***************************************************************************)
DeadClientEvent(id) == [Type |-> "DeadClientEvent", Client |-> id]

\* A writer whose peer reads keeps up with the core: its queue is written out
\* before the core takes the next event.  A stalled writer sits in Write
\* until the write deadline fails it.
Drained ==
  \A id \in ConnIDs : writer[id] = "running" => WriteChan[id] = <<>> /\ id \notin closed

\* The gateway accepts a connection: a Client with the next ID, its reader
\* and its writer.  stalled: whether its peer reads what is written to it.
Accept(stalled) ==
  /\ nextID <= MaxConns
  /\ core.pc = "idle"
  /\ events = <<>>
  /\ Drained
  /\ stalled => Cardinality({id \in ConnIDs : writer[id] = "stalled"}) < MaxStalled
  /\ UnregisteredClients' = Put(UnregisteredClients, nextID, NewClient)
  /\ reader' = [reader EXCEPT ![nextID] = "running"]
  /\ writer' = [writer EXCEPT ![nextID] = IF stalled THEN "stalled" ELSE "running"]
  /\ nextID' = nextID + 1
  /\ UNCHANGED <<LocalServers, Servers, Users, Nicks, Channels, Opers,
                 WriteChan, closed, SendQueueExceeded, events, core, lines, tsID, tsOut, codec, lib, hist>>

\* readLoop read a line and the core handles its event.  Events are handled
\* in the order they were sent: a line read now waits for the events before it.
CoreMessage(id, mode, maxLines) ==
  /\ core.pc = "idle"
  /\ events = <<>>
  /\ Drained
  /\ reader[id] = "running"
  /\ lines < maxLines
  /\ \E m \in Inputs(id, mode), ord \in OrdersFor(id) :
       Apply(handleMessageEvent(Cur, id, m, ord))
  /\ lines' = lines + 1
  /\ UNCHANGED <<nextID, reader, writer, events, tsID, tsOut, codec, lib, hist>>

\* The core handles a dead-connection event.
CoreDeadClient ==
  /\ core.pc = "idle"
  /\ events # <<>>
  /\ Head(events).Type = "DeadClientEvent"
  /\ \E ord \in OrdersFor(Head(events).Client) :
       Apply(quitConnection(Cur, Head(events).Client, <<"I/O error">>, ord))
  /\ events' = Tail(events)
  /\ UNCHANGED <<nextID, reader, writer, lines, tsID, tsOut, codec, lib, hist>>

\* The core notices a flagged connection and quits it.
CoreSendQueueCheck(id) ==
  /\ core.pc = "idle"
  /\ events = <<>>
  /\ SendQueueExceeded[id]
  /\ InSomeTable(Cur, id)
  /\ \E ord \in OrdersFor(id) : Apply(quitConnection(Cur, id, <<"SendQ exceeded">>, ord))
  /\ UNCHANGED <<nextID, reader, writer, events, lines, tsID, tsOut, codec, lib, hist>>

\* The queue the core waits on has room again: the handler goes on.
CoreResume ==
  /\ core.pc = "blocked"
  /\ Len(WriteChan[Head(core.sends).to]) < WriteChanCap
  /\ Apply(DoSends([Cur EXCEPT !.core = IdleCore], core.sends, core.cont))
  /\ UNCHANGED <<nextID, reader, writer, events, lines, tsID, tsOut, codec, lib, hist>>

\* A writeLoop that takes the newest message of its queue.
WriteLoopNewest(id) ==
  /\ writer[id] = "running"
  /\ WriteChan[id] # <<>>
  /\ WriteChan' = [WriteChan EXCEPT ![id] = SubSeq(@, 1, Len(@) - 1)]
  /\ UNCHANGED <<nextID, UnregisteredClients, LocalServers, Servers, Users,
                 Nicks, Channels, Opers, closed, SendQueueExceeded, writer,
                 reader, events, core, lines, tsID, tsOut, codec, lib, hist>>

\* writeLoop takes a message from the queue and writes it.
WriteLoop(id) ==
  /\ writer[id] = "running"
  /\ WriteChan[id] # <<>>
  /\ WriteChan' = [WriteChan EXCEPT ![id] = Tail(@)]
  /\ UNCHANGED <<nextID, UnregisteredClients, LocalServers, Servers, Users,
                 Nicks, Channels, Opers, closed, SendQueueExceeded, writer,
                 reader, events, core, lines, tsID, tsOut, codec, lib, hist>>

\* writeLoop finds its queue closed and empty, closes the connection, ends.
WriteLoopDone(id) ==
  /\ writer[id] = "running"
  /\ WriteChan[id] = <<>>
  /\ id \in closed
  /\ writer' = [writer EXCEPT ![id] = "done"]
  /\ UNCHANGED <<nextID, UnregisteredClients, LocalServers, Servers, Users,
                 Nicks, Channels, Opers, WriteChan, closed, SendQueueExceeded,
                 reader, events, core, lines, tsID, tsOut, codec, lib, hist>>

\* A writer that flags its own connection when the write fails.
WriteLoopFailFlag(id) ==
  /\ writer[id] = "stalled"
  /\ WriteChan[id] # <<>>
  /\ WriteChan' = [WriteChan EXCEPT ![id] = Tail(@)]
  /\ writer' = [writer EXCEPT ![id] = "dead"]
  /\ events' = Append(events, DeadClientEvent(id))
  /\ SendQueueExceeded' = [SendQueueExceeded EXCEPT ![id] = TRUE]
  /\ UNCHANGED <<nextID, UnregisteredClients, LocalServers, Servers, Users,
                 Nicks, Channels, Opers, closed, reader,
                 core, lines, tsID, tsOut, codec, lib, hist>>

\* The write deadline passes on a stalled write: a dead-connection event,
\* and writeLoop ends.
WriteLoopFail(id) ==
  /\ writer[id] = "stalled"
  /\ WriteChan[id] # <<>>
  /\ WriteChan' = [WriteChan EXCEPT ![id] = Tail(@)]
  /\ writer' = [writer EXCEPT ![id] = "dead"]
  /\ events' = Append(events, DeadClientEvent(id))
  /\ UNCHANGED <<nextID, UnregisteredClients, LocalServers, Servers, Users,
                 Nicks, Channels, Opers, closed, SendQueueExceeded, reader,
                 core, lines, tsID, tsOut, codec, lib, hist>>

InitDaemon ==
  /\ nextID = 1
  /\ UnregisteredClients = EmptyMap
  /\ LocalServers = EmptyMap
  /\ Servers = EmptyMap
  /\ Users = EmptyMap
  /\ Nicks = EmptyMap
  /\ Channels = EmptyMap
  /\ Opers = {}
  /\ WriteChan = [id \in ConnIDs |-> <<>>]
  /\ closed = {}
  /\ SendQueueExceeded = [id \in ConnIDs |-> FALSE]
  /\ writer = [id \in ConnIDs |-> "none"]
  /\ reader = [id \in ConnIDs |-> "none"]
  /\ events = <<>>
  /\ core = IdleCore
  /\ lines = 0
  /\ hist = NoHist

Init ==
  /\ InitDaemon
  /\ tsID = <<0, 0>>
  /\ tsOut = <<>>
  /\ codec = NoCodec
  /\ lib = NoLib

\* Every peer reads what is written to it and no connection fails.
Next ==
  \/ Accept(FALSE)
  \/ \E id \in ConnIDs : CoreMessage(id, "all", MaxLines)
  \/ \E id \in ConnIDs : WriteLoop(id)
  \/ \E id \in ConnIDs : WriteLoopDone(id)

Spec == Init /\ [][Next]_vars

\* Peers may stall and connections may fail.
NextSlow ==
  \/ \E stalled \in BOOLEAN : Accept(stalled)
  \/ \E id \in ConnIDs : CoreMessage(id, "plain", MaxLinesSlow)
  \/ CoreDeadClient
  \/ \E id \in ConnIDs : CoreSendQueueCheck(id)
  \/ CoreResume
  \/ \E id \in ConnIDs : WriteLoop(id)
  \/ \E id \in ConnIDs : WriteLoopDone(id)
  \/ \E id \in ConnIDs : WriteLoopFail(id)

SpecSlow == Init /\ [][NextSlow]_vars

\* The same, with fair scheduling: the core takes every step it can take
\* (the event loop never idles while it has an event, a flagged connection
\* or a send it can complete), a writer whose peer reads goes on writing,
\* and the write deadline of a stalled write passes.
CoreFairness ==
  /\ WF_vars(CoreDeadClient)
  /\ WF_vars(\E id \in ConnIDs : CoreSendQueueCheck(id))
  /\ WF_vars(CoreResume)

WriterFairness ==
  \A id \in ConnIDs :
    /\ WF_vars(WriteLoop(id))
    /\ WF_vars(WriteLoopDone(id))
    /\ WF_vars(WriteLoopFail(id))

SpecLive == Init /\ [][NextSlow]_vars /\ CoreFairness /\ WriterFairness

\* Servers that link and pass messages between their users; one of them
\* may stall.
NextRoute ==
  \/ \E stalled \in BOOLEAN : Accept(stalled)
  \/ \E id \in ConnIDs : CoreMessage(id, "route", MaxLinesRoute)
  \/ \E id \in ConnIDs : CoreSendQueueCheck(id)
  \/ \E id \in ConnIDs : WriteLoop(id)
  \/ \E id \in ConnIDs : WriteLoopDone(id)

SpecRoute == Init /\ [][NextRoute]_vars

\* Servers that link and introduce servers, users and channels to each
\* other; one of them may stall.
NextFlood ==
  \/ \E stalled \in BOOLEAN : Accept(stalled)
  \/ \E id \in ConnIDs : CoreMessage(id, "flood", MaxLinesFlood)
  \/ \E id \in ConnIDs : CoreSendQueueCheck(id)
  \/ \E id \in ConnIDs : WriteLoop(id)
  \/ \E id \in ConnIDs : WriteLoopDone(id)

SpecFlood == Init /\ [][NextFlood]_vars

\* Users that register, are put on channels by a linked server, and leave;
\* every peer reads what is written to it.
NextChan ==
  \/ Accept(FALSE)
  \/ \E id \in ConnIDs : CoreMessage(id, "chan", MaxLinesChan)
  \/ \E id \in ConnIDs : WriteLoop(id)
  \/ \E id \in ConnIDs : WriteLoopDone(id)

SpecChan == Init /\ [][NextChan]_vars

\* Servers that link one after the other, each introducing a server behind
\* it and a user; one of them may stall.
NextBurst ==
  \/ \E stalled \in BOOLEAN : Accept(stalled)
  \/ \E id \in ConnIDs : CoreMessage(id, "burst", MaxLinesBurst)
  \/ \E id \in ConnIDs : CoreSendQueueCheck(id)
  \/ \E id \in ConnIDs : WriteLoop(id)
  \/ \E id \in ConnIDs : WriteLoopDone(id)

SpecBurst == Init /\ [][NextBurst]_vars

\* Users that register and a linked server whose user writes to them and
\* that pings; one of the peers may stall.
NextLocal ==
  \/ \E stalled \in BOOLEAN : Accept(stalled)
  \/ \E id \in ConnIDs : CoreMessage(id, "local", MaxLinesLocal)
  \/ \E id \in ConnIDs : CoreSendQueueCheck(id)
  \/ \E id \in ConnIDs : WriteLoop(id)
  \/ \E id \in ConnIDs : WriteLoopDone(id)

SpecLocal == Init /\ [][NextLocal]_vars

\* Connections that send commands before they have registered; one of the
\* peers may stall.
NextUnreg ==
  \/ \E stalled \in BOOLEAN : Accept(stalled)
  \/ \E id \in ConnIDs : CoreMessage(id, "unreg", MaxLinesUnreg)
  \/ \E id \in ConnIDs : CoreSendQueueCheck(id)
  \/ \E id \in ConnIDs : WriteLoop(id)
  \/ \E id \in ConnIDs : WriteLoopDone(id)

SpecUnreg == Init /\ [][NextUnreg]_vars

(***************************************************************************)
(* The readers on their own feet: a reader sends one event per line to the *)
(* core's inbound queue and goes on reading, while the core takes the      *)
(* events one by one.  hist keeps, per connection, the lines in the order  *)
(* they were read and the lines in the order the core handled them.        *)
(***************************************************************************)
MessageFromClientEvent(id, m) ==
  [Type |-> "MessageFromClientEvent", Client |-> id, Message |-> m]

\* What a peer sends while nobody has looked at its line yet.
OrderInputs(id) ==
  IF "user" \in Roles(id)
    THEN {Msg(<<>>, "NICK", <<<<"a", "l">>>>),
          Msg(<<>>, "NICK", <<<<"b", "o">>>>),
          Msg(<<>>, "USER", <<<<"u">>, <<"0">>, <<"*">>, <<"r">>>>),
          Msg(<<>>, "QUIT", <<<<"bye">>>>)}
    ELSE {Msg(<<>>, "PASS", <<<<"p", "w">>, <<"T", "S">>, <<"6">>, PeerSID(id)>>),
          Msg(<<>>, "CAPAB", <<<<"Q", "S">>>>)}

\* A core that takes the newest event instead.
TakeNewest(q) == Len(q)

\* The event the core receives next: the oldest in the queue.
TakeIndex(q) == 1

\* readLoop read a line: an event for the core, and on to the next line.
ReadLoop(id) ==
  /\ reader[id] = "running"
  /\ lines < MaxLinesOrder
  /\ \E m \in OrderInputs(id) :
       /\ events' = Append(events, MessageFromClientEvent(id, m))
       /\ hist' = [hist EXCEPT ![id].read = Append(@, m)]
  /\ lines' = lines + 1
  /\ UNCHANGED <<nextID, UnregisteredClients, LocalServers, Servers, Users,
                 Nicks, Channels, Opers, WriteChan, closed, SendQueueExceeded,
                 writer, reader, core, tsID, tsOut, codec, lib>>

\* readLoop failed to read: a dead-connection event, and the reader ends.
ReadLoopFail(id) ==
  /\ reader[id] = "running"
  /\ reader' = [reader EXCEPT ![id] = "dead"]
  /\ events' = Append(events, DeadClientEvent(id))
  /\ UNCHANGED <<nextID, UnregisteredClients, LocalServers, Servers, Users,
                 Nicks, Channels, Opers, WriteChan, closed, SendQueueExceeded,
                 writer, core, lines, tsID, tsOut, codec, lib, hist>>

\* The core receives a message event and handles it.
CoreMessageEvent ==
  /\ core.pc = "idle"
  /\ events # <<>>
  /\ Drained
  /\ LET i == TakeIndex(events)
         e == events[i]
     IN  /\ e.Type = "MessageFromClientEvent"
         /\ \E ord \in OrdersFor(e.Client) :
              Apply(handleMessageEvent(Cur, e.Client, e.Message, ord))
         /\ events' = SubSeq(events, 1, i - 1) \o SubSeq(events, i + 1, Len(events))
         /\ hist' = [hist EXCEPT ![e.Client].handled = Append(@, e.Message)]
  /\ UNCHANGED <<nextID, reader, writer, lines, tsID, tsOut, codec, lib>>

\* The gateway accepts a connection while the core may have events waiting.
AcceptAny(stalled) ==
  /\ nextID <= MaxConnsOrder
  /\ stalled => Cardinality({id \in ConnIDs : writer[id] = "stalled"}) < MaxStalled
  /\ UnregisteredClients' = Put(UnregisteredClients, nextID, NewClient)
  /\ reader' = [reader EXCEPT ![nextID] = "running"]
  /\ writer' = [writer EXCEPT ![nextID] = IF stalled THEN "stalled" ELSE "running"]
  /\ nextID' = nextID + 1
  /\ core.pc = "idle"
  /\ UNCHANGED <<LocalServers, Servers, Users, Nicks, Channels, Opers,
                 WriteChan, closed, SendQueueExceeded, events, core, lines,
                 tsID, tsOut, codec, lib, hist>>

NextOrder ==
  \/ \E stalled \in BOOLEAN : AcceptAny(stalled)
  \/ \E id \in ConnIDs : ReadLoop(id)
  \/ \E id \in ConnIDs : ReadLoopFail(id)
  \/ CoreMessageEvent
  \/ CoreDeadClient
  \/ CoreResume
  \/ \E id \in ConnIDs : WriteLoop(id)
  \/ \E id \in ConnIDs : WriteLoopDone(id)
  \/ \E id \in ConnIDs : WriteLoopFail(id)

SpecOrder == Init /\ [][NextOrder]_vars

(***************************************************************************)
(* The codec, on its own: a message is encoded and the line parsed back,   *)
(* or a line is parsed and its ending fixed.                               *)
(***************************************************************************)
\* n times the byte c.
Rep(c, n) == [i \in 1..n |-> c]

CodecPrefixes == {<<>>, <<"n">>, <<":", "n", "!", "u">>}

\* Commands: upper-case letters and digits, and some that are not.
CodecCommands == {<<"P">>, <<"0", "0", "1">>, <<"p">>, <<"P", "-">>, <<>>}

\* Parameters: plain, empty, with ':' or ' ', and with NUL, CR or LF.
CodecParams ==
  {<<"a">>, <<>>, <<":">>, <<"a", " ", "b">>, <<" ">>, <<"a", ":">>,
   <<"a", " ">>, <<"a", CR>>, <<NUL>>, <<LF, "b">>}

\* Lengths of a long last parameter: around what is left of a line.
LongLengths == (MaxLineLength - MaxLongSlack)..MaxLineLength

CodecParamLists ==
  {<<>>}
  \cup {<<a>> : a \in CodecParams}
  \cup {<<a, b>> : a, b \in CodecParams}
  \cup {Rep(<<"x">>, k) \o <<a>> : k \in {13, 14, 15}, a \in CodecParams}
  \cup {<<Rep("x", n)>> : n \in LongLengths}
  \cup {<<Rep("x", n) \o <<" ">>, <<"b">>>> : n \in {MaxLineLength}}
  \cup {<<<<"a">>, <<":">> \o Rep("x", n)>> : n \in LongLengths}

CodecMessages ==
  {[Prefix |-> p, Command |-> c, Params |-> ps] :
     p \in CodecPrefixes, c \in CodecCommands, ps \in CodecParamLists}
  \cup {[Prefix |-> Rep("n", n), Command |-> <<"P">>, Params |-> <<<<"a">>>>] :
          n \in LongLengths}

\* Lines without their ending: a command alone, with a prefix, with middle
\* and trailing parameters, and with 13, 14 and 15 parameters.
CodecBodies ==
  {<<"P">>, <<"p", "1">>, <<":", "n", " ", "P">>, <<"P", " ", "a">>,
   <<"P", " ", "a", " ", "b", ":">>, <<"P", " ", ":", "a", " ", "b">>,
   <<"P", " ", ":">>, <<":", "n">>, <<":", " ", "P">>, <<"P", "-">>}
  \cup {<<"P">> \o Rep(" ", k) \o <<"a">> : k \in {2}}
  \cup {<<"P">> \o [i \in 1..(2 * k) |-> IF i % 2 = 1 THEN " " ELSE "x"] :
          k \in {13, 14, 15}}

CodecEndings == {<<CR, LF>>, <<LF>>, <<CR>>, <<>>, <<CR, CR, LF>>, <<LF, LF>>}

\* Every line of up to MaxEndingLen bytes of 'a', CR and LF.
RECURSIVE SeqsUpTo(_, _)
SeqsUpTo(S, n) ==
  IF n = 0 THEN {<<>>}
  ELSE LET shorter == SeqsUpTo(S, n - 1)
       IN  shorter \cup {Append(x, c) : x \in shorter, c \in S}

CodecLines ==
  {b \o Rep(" ", k) \o e : b \in CodecBodies, k \in 0..MaxStray, e \in CodecEndings}
  \cup SeqsUpTo({"a", CR, LF}, MaxEndingLen)

InitCodec ==
  /\ InitDaemon
  /\ tsID = <<0, 0>>
  /\ tsOut = <<>>
  /\ lib = NoLib
  /\ \/ \E m \in CodecMessages : codec = [NoCodec EXCEPT !.stage = "message", !.m = m]
     \/ \E l \in CodecLines : codec = [NoCodec EXCEPT !.stage = "line", !.line = l]

\* Encode the message.
CodecEncode ==
  /\ codec.stage = "message"
  /\ codec' = [codec EXCEPT !.stage = "encoded", !.enc = Encode(codec.m)]
  /\ UNCHANGED <<daemonVars, tsID, tsOut, lib, hist>>

\* Parse the line Encode returned.
CodecDecode ==
  /\ codec.stage = "encoded"
  /\ codec.enc.err # "error"
  /\ codec' = [codec EXCEPT !.stage = "decoded", !.dec = ParseMessage(codec.enc.val)]
  /\ UNCHANGED <<daemonVars, tsID, tsOut, lib, hist>>

\* Parse the line, and fix its ending.
CodecParse ==
  /\ codec.stage = "line"
  /\ codec' = [codec EXCEPT !.stage = "parsed",
                            !.dec = ParseMessage(codec.line),
                            !.fix = fixLineEnding(codec.line)]
  /\ UNCHANGED <<daemonVars, tsID, tsOut, lib, hist>>

\* Fix the ending of the line fixLineEnding returned.
CodecFixAgain ==
  /\ codec.stage = "parsed"
  /\ codec.fix.err = "nil"
  /\ codec' = [codec EXCEPT !.stage = "fixed", !.again = fixLineEnding(codec.fix.val)]
  /\ UNCHANGED <<daemonVars, tsID, tsOut, lib, hist>>

NextCodec ==
  \/ CodecEncode
  \/ CodecDecode
  \/ CodecParse
  \/ CodecFixAgain

SpecCodec == InitCodec /\ [][NextCodec]_vars

(***************************************************************************)
(* The client library: one Conn, the lines its server sends, and the hooks *)
(* in client.Hooks, which are kept as the list of calls made to them.      *)
(***************************************************************************)
\* A line: the command, the rest, and CRLF.
LibLine(cmd, rest) == cmd \o rest \o CRLF

\* What the server sends: the welcome, a PING with and without a parameter
\* and in lower case, an ERROR, a message from a user, a reply, and a line
\* that is no message.
LibLines ==
  {LibLine(<<"0", "0", "1">>, <<" ", "n", " ", ":", "h", "i">>),
   LibLine(<<"P", "I", "N", "G">>, <<" ", ":", "s">>),
   LibLine(<<"p", "i", "n", "g">>, <<" ", "s">>),
   LibLine(<<"P", "I", "N", "G">>, <<>>),
   LibLine(<<"E", "R", "R", "O", "R">>, <<" ", ":", "b", "y", "e">>),
   LibLine(<<":", "m", " ", "P", "R", "I", "V", "M", "S", "G">>, <<" ", "n", " ", ":", "y", "o">>),
   LibLine(<<"4", "3", "3">>, <<" ", "*", " ", "n", " ", ":", "u", "s", "e", "d">>),
   LibLine(<<":">>, <<>>)}

\* Conn.ReadMessage on a line that was read: ErrTruncated is no error.
LibReadMessage(line) ==
  LET p == ParseMessage(line)
  IN  IF p.err \notin {"nil", "ErrTruncated"}
        THEN CodecOut(NoMessage, "error") ELSE CodecOut(p.val, "nil")

\* Conn.WriteMessage: the line that goes out.
LibWritten(m) == Encode(m).val

\* Conn.hooks: each hook of client.Hooks, in order, is called with the message.
hooks(calls, message) ==
  calls \o [h \in 1..NumHooks |-> [hook |-> h, message |-> message]]

LibNew == [NoLib EXCEPT !.pc = "new"]

InitLib ==
  /\ InitDaemon
  /\ tsID = <<0, 0>>
  /\ tsOut = <<>>
  /\ codec = NoCodec
  /\ lib = LibNew

\* Conn.Connect, called by the application or by Loop: the connection is
\* made and Register writes NICK and USER; greet then waits for the welcome.
LibConnect(via) ==
  /\ lib.pc = "new"
  /\ lib' = [lib EXCEPT
       !.pc = "greet", !.via = via,
       !.out = @ \o <<LibWritten([Prefix |-> <<>>, Command |-> <<"N", "I", "C", "K">>,
                                  Params |-> <<<<"n">>>>]),
                      LibWritten([Prefix |-> <<>>, Command |-> <<"U", "S", "E", "R">>,
                                  Params |-> <<<<"i">>, <<"0">>, <<"*">>, <<"r">>>>])>>]
  /\ UNCHANGED <<daemonVars, tsID, tsOut, codec, hist>>

\* The dial or a write of Register fails: Connect returns the error.
LibConnectFail(via) ==
  /\ lib.pc = "new"
  /\ lib' = [lib EXCEPT !.pc = "returned", !.via = via]
  /\ UNCHANGED <<daemonVars, tsID, tsOut, codec, hist>>

\* The server sends a line.
LibServerSend ==
  /\ lib.pc \in {"greet", "connected", "loop"}
  /\ lib.sent < MaxLibLines
  /\ \E l \in LibLines : lib' = [lib EXCEPT !.in = Append(@, l), !.sent = @ + 1]
  /\ UNCHANGED <<daemonVars, tsID, tsOut, codec, hist>>

\* The body of the loop of greet once ReadMessage has returned r: the hooks
\* are called; the welcome ends greet, and so Connect (and a Loop that
\* called it).
greetBody(c, r) ==
  IF r.err # "nil" THEN [c EXCEPT !.in = Tail(@), !.pc = "returned"]
  ELSE [c EXCEPT
          !.in = Tail(@),
          !.read = Append(@, r.val),
          !.calls = hooks(@, r.val),
          !.pc = IF r.val.Command = <<"0", "0", "1">>
                   THEN IF c.via = "Connect" THEN "connected" ELSE "returned"
                   ELSE "greet"]

\* One turn of the loop of greet: a message is read and dealt with.
LibGreet ==
  /\ lib.pc = "greet"
  /\ lib.in # <<>>
  /\ lib' = greetBody(lib, LibReadMessage(Head(lib.in)))
  /\ UNCHANGED <<daemonVars, tsID, tsOut, codec, hist>>

\* The application calls Loop on the connected Conn.
LibLoopStart ==
  /\ lib.pc = "connected"
  /\ lib' = [lib EXCEPT !.pc = "loop"]
  /\ UNCHANGED <<daemonVars, tsID, tsOut, codec, hist>>

\* Conn.Pong.
Pong(c, ping) ==
  [c EXCEPT !.out = Append(@, LibWritten([Prefix |-> <<>>,
                                          Command |-> <<"P", "O", "N", "G">>,
                                          Params |-> <<ping.Params[1]>>]))]

\* The body of the loop of Loop once ReadMessage has returned r: a PING is
\* answered (Pong takes ping.Params[0], and its write succeeds or fails); an
\* ERROR closes the connection and Loop returns; otherwise the hooks are
\* called.
LoopBody(c, r, writeOK) ==
  IF r.err # "nil" THEN [c EXCEPT !.in = Tail(@), !.pc = "returned"]
  ELSE
    LET got == [c EXCEPT !.in = Tail(@), !.read = Append(@, r.val)]
        isPing == r.val.Command = <<"P", "I", "N", "G">>
    IN  IF isPing /\ r.val.Params = <<>> THEN [got EXCEPT !.pc = "panicked"]
        ELSE IF isPing /\ ~writeOK THEN [got EXCEPT !.pc = "returned"]
        ELSE
          LET ponged == IF isPing THEN Pong(got, r.val) ELSE got
          IN  IF r.val.Command = <<"E", "R", "R", "O", "R">>
                THEN [ponged EXCEPT !.pc = "returned"]
                ELSE [ponged EXCEPT !.calls = hooks(@, r.val)]

\* One turn of Loop on a connected Conn: a message is read and dealt with.
LibLoop(writeOK) ==
  /\ lib.pc = "loop"
  /\ lib.in # <<>>
  /\ lib' = LoopBody(lib, LibReadMessage(Head(lib.in)), writeOK)
  /\ UNCHANGED <<daemonVars, tsID, tsOut, codec, hist>>

\* The read times out or the connection is gone: ReadMessage returns an
\* error and greet or Loop returns it.
LibReadFail ==
  /\ lib.pc \in {"greet", "loop"}
  /\ lib.in = <<>>
  /\ lib' = [lib EXCEPT !.pc = "returned"]
  /\ UNCHANGED <<daemonVars, tsID, tsOut, codec, hist>>

NextLib ==
  \/ \E via \in {"Connect", "Loop"} : LibConnect(via)
  \/ \E via \in {"Connect", "Loop"} : LibConnectFail(via)
  \/ LibServerSend
  \/ LibGreet
  \/ LibLoopStart
  \/ \E writeOK \in BOOLEAN : LibLoop(writeOK)
  \/ LibReadFail

SpecLib == InitLib /\ [][NextLib]_vars

(***************************************************************************)
(* Conn.Message, on its own: a connected Conn is given a target and a      *)
(* message, and each write of a piece succeeds or fails.                   *)
(***************************************************************************)
\* maxMessage and overhead of Conn.Message.
maxMessage == 412

overhead == 12

\* Messages of n bytes whose bytes tell their positions apart, with spaces
\* and colons among them.
MessageOf(n) ==
  [i \in 1..n |-> IF i % 7 = 0 THEN " "
                  ELSE IF i % 11 = 0 THEN ":"
                  ELSE <<"a", "b", "c">>[(i % 3) + 1]]

MessageLengths ==
  {k * (maxMessage - overhead) + d :
     k \in 0..MaxPieces, d \in (0 - MessageSlack)..MessageSlack} \cap Nat

\* Targets: a channel, a nick, and a channel name so long that a full
\* piece does not fit in a line with it.
MessageTargets ==
  {<<"#", "c">>, <<"n">>,
   <<"#">> \o Rep("x", MaxLineLength - maxMessage)}

\* The loop of Conn.Message from index i on; the write of piece number
\* failAt fails (none when failAt is 0), and Message then returns nil.
RECURSIVE MessageLoop(_, _, _, _, _)
MessageLoop(c, target, message, i, failAt) ==
  IF i >= Len(message) THEN [c EXCEPT !.ret = "nil"]
  ELSE
    LET endIndex == IF i + maxMessage - overhead > Len(message)
                      THEN Len(message) ELSE i + maxMessage - overhead
        piece == Slice(message, i, endIndex)
        w == Encode([Prefix |-> <<>>,
                     Command |-> <<"P", "R", "I", "V", "M", "S", "G">>,
                     Params |-> <<target, piece>>])
    IN  IF w.err = "error" \/ i = (failAt - 1) * (maxMessage - overhead)
          THEN [c EXCEPT !.ret = "nil"]
          ELSE MessageLoop([c EXCEPT !.out = Append(@, w.val)], target, message,
                           i + maxMessage - overhead, failAt)

InitMessage ==
  /\ InitDaemon
  /\ tsID = <<0, 0>>
  /\ tsOut = <<>>
  /\ codec = NoCodec
  /\ \E target \in MessageTargets, n \in MessageLengths :
       lib = [NoLib EXCEPT !.pc = "connected", !.target = target,
                           !.message = MessageOf(n)]

\* The application calls Conn.Message on the connected Conn.
LibMessage(failAt) ==
  /\ lib.pc = "connected"
  /\ lib.ret = "none"
  /\ failAt = 0 \/ (failAt - 1) * (maxMessage - overhead) < Len(lib.message)
  /\ lib' = MessageLoop(lib, lib.target, lib.message, 0, failAt)
  /\ UNCHANGED <<daemonVars, tsID, tsOut, codec, hist>>

NextMessage == \E failAt \in 0..(MaxPieces + 1) : LibMessage(failAt)

SpecMessage == InitMessage /\ [][NextMessage]_vars

(***************************************************************************)
(* The TS6 identifiers, on their own: two connection IDs are drawn and     *)
(* getTS6ID and getTS6UID are applied to each.                             *)
(***************************************************************************)
TS6Inputs ==
  (0..MaxSmallID)
  \cup {Pow26(2) - 1, Pow26(2), Pow26(3), Pow26(5),
        TS6IDLimit - 1, TS6IDLimit, TS6IDLimit + 1}

InitTS6 ==
  /\ InitDaemon
  /\ tsID \in TS6Inputs \X TS6Inputs
  /\ tsOut = <<>>
  /\ codec = NoCodec
  /\ lib = NoLib

\* tsOut: getTS6ID of the first and of the second, then getTS6UID of each.
ComputeTS6 ==
  /\ Len(tsOut) = 0
  /\ tsOut' = <<getTS6ID(tsID[1]), getTS6ID(tsID[2]),
                getTS6UID(tsID[1]), getTS6UID(tsID[2])>>
  /\ UNCHANGED <<daemonVars, tsID, codec, lib, hist>>

NextTS6 == ComputeTS6

SpecTS6 == InitTS6 /\ [][NextTS6]_vars

(***************************************************************************)
(* Properties.                                                             *)
(***************************************************************************)
\* C1: in every reachable state the keys of the nick table are canonical
\* (lower-cased) nicks, so that the table, a map, holds one UID for each, and
\* no two users of the user table have the same canonical nick; and
\* an introduction of a canonical nick that is already in the nick table is
\* rejected, whichever came first: a UID line for it tears its link down and
\* a NICK line for it is refused with 433, the nick table and the user table
\* staying as they are, so that the earlier entry is the one that survives.
C1_OneNickOneUser ==
  /\ \A n \in DOMAIN Nicks : ToLower(n) = n
  /\ \A u1, u2 \in DOMAIN Users :
       ToLower(Users[u1].DisplayNick) = ToLower(Users[u2].DisplayNick) => u1 = u2
  /\ \A id \in ConnIDs : \A m \in UIDInputs(id) :
       (/\ core.pc = "idle"
        /\ Has(LocalServers, id)
        /\ Has(Servers, m.Prefix)
        /\ Has(Nicks, ToLower(m.Params[1])))
       => LET after == uidCommand(Cur, id, m) IN
          /\ ~Has(after.LocalServers, id)
          /\ id \in after.closed
          /\ after.Nicks = Nicks
          /\ after.Users = Users
  /\ \A id \in ConnIDs : \A n \in NickInputs(TRUE) :
       (core.pc = "idle" /\ Has(UnregisteredClients, id) /\ Has(Nicks, ToLower(n)))
       => LET after == nickCommand(Cur, id, Msg(<<>>, "NICK", <<n>>)) IN
          /\ after.Nicks = Nicks
          /\ after.Users = Users
          /\ after.UnregisteredClients = UnregisteredClients
          /\ (Len(WriteChan[id]) < WriteChanCap /\ ~SendQueueExceeded[id]
                /\ id \notin closed /\ ToLower(n) = n)
               => after.WriteChan[id][Len(WriteChan[id]) + 1].Command = "433"

\* A link was torn down for a nick collision and the nick is still held by
\* one user, introduced earlier.
C1_Witness ==
  \E id \in ConnIDs :
    /\ id \in closed
    /\ WriteChan[id] # <<>>
    /\ WriteChan[id][Len(WriteChan[id])] = Msg(TS6SID, "ERROR", <<<<"Nick collision">>>>)
    /\ Has(Nicks, <<"a", "l">>)
    /\ Cardinality({u \in DOMAIN Users : ToLower(Users[u].DisplayNick) = <<"a", "l">>}) = 1

\* C2: in every reachable state a channel that is in the channel table has
\* a member (membership is kept in the channel's entry, so a channel with a
\* member is in the table).
C2_ChannelHasMember ==
  \A name \in DOMAIN Channels : Channels[name].Members # {}

\* C3: in every reachable state the core is not waiting in a send to a
\* connection's outbound queue.
C3_CoreNeverWaits == core.pc # "blocked"

\* C4: a connection that is flagged send-queue-exceeded while it is in one of
\* the daemon's tables is eventually disconnected by the core (it leaves the
\* tables), under fair scheduling of the core and of the writers.
C4_FlaggedEventuallyQuit ==
  \A id \in ConnIDs :
    (SendQueueExceeded[id] /\ InSomeTable(Cur, id)) ~> ~InSomeTable(Cur, id)

C6_Lines(id) ==
  {Msg(RemoteUID(id), c, <<RemoteUID(x), <<"h", "i">>>>) :
     c \in {"PRIVMSG", "NOTICE"}, x \in ConnIDs}

C7_SJOINCreates ==
  \A id \in ConnIDs : \A m \in SJOINInputs(id) :
    LET name    == ToLower(m.Params[2])
        listed  == Split(m.Params[4])
        marks   == {<<>>, <<"@">>, <<"+">>, <<"@", "+">>, <<"+", "@">>}
        named(i) == {u \in DOMAIN Users : \E p \in marks : listed[i] = p \o u}
        after   == sjoinCommand(Cur, id, m)
    IN  (/\ core.pc = "idle"
         /\ Has(LocalServers, id)
         /\ Has(Servers, m.Prefix)
         /\ ~Has(Channels, name)
         /\ \A i \in 1..Len(listed) : named(i) # {})
        =>
        /\ Has(after.Channels, name)
        /\ DOMAIN after.Channels[name] = {"TS", "Members"}
        /\ m.Params[1] = <<"7">> => after.Channels[name].TS = 7
        /\ after.Channels[name].Members = UNION {named(i) : i \in 1..Len(listed)}
        /\ \A u \in DOMAIN Users :
             Has(after.Users, u) /\ after.Users[u].Modes = Users[u].Modes
        /\ DOMAIN after.Channels = DOMAIN Channels \cup {name}

\* A channel made by an SJOIN that listed its one member with a marker, on a
\* link that is still up.
C7_Witness ==
  \E id \in ConnIDs :
    /\ Has(LocalServers, id)
    /\ Has(Channels, <<"#", "c">>)
    /\ Channels[<<"#", "c">>].TS = 7
    /\ Channels[<<"#", "c">>].Members = {RemoteUID(id)}

\* The line that completes the registration of unregistered connection id
\* in the current state, if m is one: a valid NICK that is free when USER
\* has been seen, or a valid USER when a nick has been reserved.
C8_Completes(id, m) ==
  /\ Has(UnregisteredClients, id)
  /\ \/ /\ m.Command = "NICK"
        /\ Len(UnregisteredClients[id].PreRegUser) > 0
        /\ ~Has(Nicks, ToLower(m.Params[1]))
     \/ /\ m.Command = "USER"
        /\ Len(UnregisteredClients[id].PreRegDisplayNick) > 0

\* What C8 says of the state after such a line.
C8_Registered(id, m, after) ==
  LET nick == IF m.Command = "NICK" THEN m.Params[1]
              ELSE UnregisteredClients[id].PreRegDisplayNick
      n    == Len(WriteChan[id])
      q    == after.WriteChan[id]
  IN  /\ after.core.pc = "idle"
      /\ Len(q) >= n + 4
      /\ \A i \in 1..n : q[i] = WriteChan[id][i]
      /\ <<q[n + 1].Command, q[n + 2].Command, q[n + 3].Command, q[n + 4].Command>>
           = <<"001", "002", "003", "004">>
      /\ \A i \in 1..4 : q[n + i].Params[1] = nick
      /\ Has(after.Nicks, ToLower(nick))
      /\ after.Nicks[ToLower(nick)] = TS6SID \o getTS6ID(id).val
      /\ ~Has(after.UnregisteredClients, id)
      /\ Has(after.Users, TS6SID \o getTS6ID(id).val)
      /\ after.Users[TS6SID \o getTS6ID(id).val].LocalUser = id

C9_TS6Base26 ==
  Len(tsOut) # 0 =>
    LET digits(n) == [i \in 1..6 |-> Upper[((n \div Pow26(6 - i)) % 26) + 1]]
        small(k)  == tsID[k] \in 0..(Pow26(6) - 1)
    IN  /\ \A k \in 1..2 :
             small(k) => /\ ~tsOut[k].err
                         /\ Len(tsOut[k].val) = 6
                         /\ \A i \in 1..6 : IsUpper(tsOut[k].val[i])
                         /\ tsOut[k].val = digits(tsID[k])
        /\ \A k \in 1..2 :
             /\ tsID[k] = 0  => tsOut[k].val = <<"A", "A", "A", "A", "A", "A">>
             /\ tsID[k] = 1  => tsOut[k].val = <<"A", "A", "A", "A", "A", "B">>
             /\ tsID[k] = 26 => tsOut[k].val = <<"A", "A", "A", "A", "B", "A">>
        /\ (small(1) /\ small(2) /\ tsID[1] # tsID[2]) => tsOut[1].val # tsOut[2].val

C9_Witness ==
  /\ Len(tsOut) # 0
  /\ tsID = <<26, Pow26(6) - 1>>
  /\ tsOut[1] = Ok(<<"A", "A", "A", "A", "B", "A">>)
  /\ tsOut[2] = Ok(<<"Z", "Z", "Z", "Z", "Z", "Z">>)

\* C10: for a connection ID of 26^6 (308915776) or more, getTS6ID and
\* getTS6UID return an error and no identifier; for every smaller ID both
\* succeed.
C10_TS6Overflow ==
  Len(tsOut) # 0 =>
    \A k \in 1..2 :
      IF tsID[k] >= Pow26(6)
        THEN /\ tsOut[k].err     /\ tsOut[k].val = <<>>
             /\ tsOut[k + 2].err /\ tsOut[k + 2].val = <<>>
        ELSE /\ ~tsOut[k].err     /\ Len(tsOut[k].val) = 6
             /\ ~tsOut[k + 2].err /\ tsOut[k + 2].val = TS6SID \o tsOut[k].val

C10_Witness ==
  /\ Len(tsOut) # 0
  /\ tsID = <<Pow26(6), Pow26(6) - 1>>
  /\ tsOut[1].err /\ tsOut[3].err
  /\ ~tsOut[2].err /\ ~tsOut[4].err

\* A message as C11 calls well-formed: a non-empty command of upper-case
\* letters and digits, a prefix without space, NUL, CR, LF, and at most 15
\* parameters of which only the last may be empty or hold ':' or ' '.
C11_WellFormed(m) ==
  /\ Len(m.Command) > 0
  /\ \A i \in DOMAIN m.Command : IsUpper(m.Command[i]) \/ IsDigit(m.Command[i])
  /\ \A i \in DOMAIN m.Prefix : m.Prefix[i] \notin {" ", NUL, CR, LF}
  /\ Len(m.Params) <= 15
  /\ \A i \in 1..(Len(m.Params) - 1) :
       Len(m.Params[i]) > 0 /\ ~HasColonOrSpace(m.Params[i])

\* C11 (as stated): the line Encode returns without error for a well-formed
\* message is parsed by ParseMessage, without error, into the same prefix,
\* command and parameters.
C11_RoundTrip ==
  (codec.stage = "decoded" /\ C11_WellFormed(codec.m) /\ codec.enc.err = "nil")
  => codec.dec = CodecOut(codec.m, "nil")

\* C11 (amended): the same, for a message no parameter of which holds NUL,
\* CR or LF.
C11_RoundTripNoControl ==
  (/\ codec.stage = "decoded"
   /\ C11_WellFormed(codec.m)
   /\ codec.enc.err = "nil"
   /\ \A i \in DOMAIN codec.m.Params : \A k \in DOMAIN codec.m.Params[i] :
        codec.m.Params[i][k] \notin {NUL, CR, LF})
  => codec.dec = CodecOut(codec.m, "nil")

\* A message with a prefix and fifteen parameters, the last with a space,
\* came back as it was.
C11_Witness ==
  /\ codec.stage = "decoded"
  /\ C11_WellFormed(codec.m)
  /\ Len(codec.m.Prefix) > 0
  /\ Len(codec.m.Params) = 15
  /\ codec.m.Params[15] = <<"a", " ", "b">>
  /\ codec.enc.err = "nil"
  /\ codec.dec = CodecOut(codec.m, "nil")

\* C13: in every reachable state the next hop of every server in the server
\* table is a local server that is linked now, so that no server introduced
\* through a link outlives the link.
C13_ServersBehindLiveLinks ==
  \A sid \in DOMAIN Servers : Has(LocalServers, Servers[sid].Link)

\* The SID and SJOIN lines the server on connection id may send.
C12_Lines(id) ==
  {Msg(PeerSID(id), "SID", <<<<"s", "9">>, <<"2">>, UnknownSID, <<"d">>>>)}
  \cup SJOINInputs(id)

\* The line is accepted: the link is up, the line's origin is a known
\* server, and the handler neither tears the link down nor replies 461.
C12_Accepted(id, m, after) ==
  /\ core.pc = "idle"
  /\ Has(LocalServers, id)
  /\ Has(Servers, m.Prefix)
  /\ Len(m.Params) >= 4
  /\ Has(after.LocalServers, id)

\* C12 (as stated): in every reachable state, an accepted SID or SJOIN from
\* a linked server is added, as it came, once to the queue of every other
\* linked server and not to the queue of the link it came from.
C12_FloodedToOthers ==
  \A id \in ConnIDs : \A m \in C12_Lines(id) :
    LET after == ServerHandleMessage(Cur, id, m)
    IN  C12_Accepted(id, m, after) =>
          /\ after.WriteChan[id] = WriteChan[id]
          /\ \A q \in (DOMAIN LocalServers) \ {id} :
               after.WriteChan[q] = Append(WriteChan[q], m)

\* C12 (amended): such a line is added, as it came, once to the queue of
\* every other linked server whose queue is not flagged and has room; a
\* full queue is flagged and gets nothing, a flagged one gets nothing; and
\* no other queue changes, that of the link it came from included.
C12_FloodedWhenRoom ==
  \A id \in ConnIDs : \A m \in C12_Lines(id) :
    LET after == ServerHandleMessage(Cur, id, m)
    IN  C12_Accepted(id, m, after) =>
          \A q \in ConnIDs :
            IF q \in (DOMAIN LocalServers) \ {id}
                 /\ ~SendQueueExceeded[q] /\ Len(WriteChan[q]) < WriteChanCap
              THEN after.WriteChan[q] = Append(WriteChan[q], m)
              ELSE /\ after.WriteChan[q] = WriteChan[q]
                   /\ (q \in (DOMAIN LocalServers) \ {id}) => after.SendQueueExceeded[q]

\* The SID line of one link is the last in the queue of another link, as
\* it came; the server it introduces is in the table behind the first link,
\* whose own queue has no SID.
C12_Witness ==
  \E id, q \in ConnIDs :
    /\ id # q
    /\ Has(LocalServers, id) /\ Has(LocalServers, q)
    /\ Has(Servers, UnknownSID) /\ Servers[UnknownSID].Link = id
    /\ WriteChan[q] # <<>>
    /\ WriteChan[q][Len(WriteChan[q])]
         = Msg(PeerSID(id), "SID", <<<<"s", "9">>, <<"2">>, UnknownSID, <<"d">>>>)
    /\ \A i \in DOMAIN WriteChan[id] : WriteChan[id][i].Command # "SID"

\* What C14 says of the state after the quit of the local user that had
\* uid and nick on connection id.
C14_Gone(id, uid, nick, after) ==
  /\ ~Has(after.Nicks, canonicalizeNick(nick))
  /\ \A n \in DOMAIN after.Channels : uid \notin after.Channels[n].Members
  /\ ~Has(after.Users, uid)
  /\ id \in after.closed

IsPrefix(x, y) == Len(x) <= Len(y) /\ SubSeq(y, 1, Len(x)) = x

\* C15: in every reachable state, for every connection, the lines the core
\* has handled are the first of the lines read from it, in the order they
\* were read: an earlier line is handled before a later one, however the
\* readers of the other connections and the core interleave.
C15_HandledInReadOrder ==
  \A id \in ConnIDs : IsPrefix(hist[id].handled, hist[id].read)

\* Two connections, each with two different lines read, the lines of both
\* handled, and the events of the two connections were in the queue in turn.
C15_Witness ==
  /\ Len(hist[1].handled) = 2 /\ hist[1].handled[1] # hist[1].handled[2]
  /\ Len(hist[2].handled) = 2 /\ hist[2].handled[1] # hist[2].handled[2]
  /\ hist[1].read = hist[1].handled
  /\ hist[2].read = hist[2].handled


\* The tables of the core and the flags of the connections.
C16_Owned ==
  <<UnregisteredClients, LocalServers, Servers, Users, Nicks, Channels,
    Opers, SendQueueExceeded, closed>>

\* A step of the reader of id: it read a line, or it failed and ended.
C16_ReaderStep(id) ==
  \/ hist'[id].read # hist[id].read
  \/ reader[id] = "running" /\ reader'[id] = "dead"

\* A step of the writer of id: it took a message from its queue, or ended.
C16_WriterStep(id) ==
  \/ Len(WriteChan'[id]) < Len(WriteChan[id])
  \/ writer[id] \in {"running", "stalled"} /\ writer'[id] \in {"dead", "done"}

\* C16: a step of a reader or a writer leaves the tables and every
\* connection's SendQueueExceeded flag as they are (so a table changes in
\* steps of the core only); a reader step only appends one message or
\* dead-connection event of its connection to the core's queue, a writer step
\* only takes the oldest message from its own queue and, when the write
\* fails, appends a dead-connection event of its connection.
C16_TasksLeaveTables ==
  [][\A id \in ConnIDs :
       /\ C16_ReaderStep(id) =>
            /\ UNCHANGED C16_Owned
            /\ UNCHANGED <<WriteChan, writer, core>>
            /\ \E e \in {DeadClientEvent(id)} \cup
                        {MessageFromClientEvent(id, m) : m \in OrderInputs(id)} :
                 events' = Append(events, e)
       /\ C16_WriterStep(id) =>
            /\ UNCHANGED C16_Owned
            /\ UNCHANGED <<reader, core>>
            /\ \A o \in ConnIDs \ {id} : WriteChan'[o] = WriteChan[o]
            /\ \/ WriteChan'[id] = WriteChan[id]
               \/ WriteChan[id] # <<>> /\ WriteChan'[id] = Tail(WriteChan[id])
            /\ events' \in {events, Append(events, DeadClientEvent(id))}
            /\ events' # events => writer'[id] = "dead"]_vars

\* A writer failed and a reader went on reading while a user is registered.
C16_Witness ==
  /\ Users # EmptyMap
  /\ \E id \in ConnIDs : writer[id] = "dead"
  /\ \E id \in ConnIDs : reader[id] = "dead"
  /\ \E id \in ConnIDs : Len(hist[id].read) > Len(hist[id].handled)


\* Prefix and command as Encode writes them before the parameters.
C17_Head(m) ==
  (IF Len(m.Prefix) > 0 THEN <<":">> \o m.Prefix \o <<" ">> ELSE <<>>) \o m.Command

\* Parameter i as Encode writes it: with ':' in front where it needs one.
C17_Written(m, i) ==
  IF HasColonOrSpace(m.Params[i]) \/ Len(m.Params[i]) = 0
    THEN <<":">> \o m.Params[i] ELSE m.Params[i]

\* The line without its ending, were there no limit, up to parameter i.
RECURSIVE C17_Whole(_, _)
C17_Whole(m, i) ==
  IF i = 0 THEN C17_Head(m)
  ELSE C17_Whole(m, i - 1) \o <<" ">> \o C17_Written(m, i)

\* The parameters that do not fit: the line up to them, with its ending, is
\* longer than MaxLineLength, while prefix and command fit.
C17_NoFit(m) ==
  {i \in DOMAIN m.Params :
     /\ Len(C17_Head(m)) + 2 <= MaxLineLength
     /\ Len(C17_Whole(m, i)) + 2 > MaxLineLength}

\* Parameter i is one Encode refuses: not the last, and empty or with a
\* ':' or a ' ' in it.
C17_Refused(m, i) ==
  /\ i # Len(m.Params)
  /\ HasColonOrSpace(m.Params[i]) \/ Len(m.Params[i]) = 0

\* What Encode returned is a line of at most MaxLineLength bytes ending in CRLF.
C17_IsLine(out) ==
  /\ Len(out.val) >= 2
  /\ Len(out.val) <= MaxLineLength
  /\ SubSeq(out.val, Len(out.val) - 1, Len(out.val)) = CRLF

\* The returned line is the beginning of the whole line, cut to fit.
C17_BestEffort(m, out) ==
  /\ out.err = "ErrTruncated"
  /\ C17_IsLine(out)
  /\ Len(out.val) >= MaxLineLength - 2
  /\ IsPrefix(SubSeq(out.val, 1, Len(out.val) - 2), C17_Whole(m, Len(m.Params)))

\* C17 as stated: every line Encode returns ends with CRLF and has at most
\* 512 bytes with it, and whenever a parameter does not fit Encode returns
\* the truncated line with ErrTruncated.
C17_TruncatedWhenNoFit ==
  codec.stage = "encoded" =>
    /\ codec.enc.err \in {"nil", "ErrTruncated"} => C17_IsLine(codec.enc)
    /\ C17_NoFit(codec.m) # {} => C17_BestEffort(codec.m, codec.enc)

\* C17 amended: every line Encode returns ends with CRLF and has at most 512
\* bytes with it; when a parameter does not fit, and neither it nor one before
\* it is a parameter Encode refuses (not the last, and empty or with ':' or
\* ' '), Encode returns the truncated line with ErrTruncated; when every
\* parameter fits and none is refused, it returns the whole line.
C17_TruncatedWhenAccepted ==
  codec.stage = "encoded" =>
    LET m == codec.m
        nofit == C17_NoFit(m)
        first == CHOOSE i \in nofit : \A j \in nofit : i <= j
    IN  /\ codec.enc.err \in {"nil", "ErrTruncated"} => C17_IsLine(codec.enc)
        /\ codec.enc.err = "error" => codec.enc.val = <<>>
        /\ (nofit # {} /\ \A i \in 1..first : ~C17_Refused(m, i))
             => C17_BestEffort(m, codec.enc)
        /\ (nofit = {} /\ Len(C17_Head(m)) + 2 <= MaxLineLength
              /\ \A i \in DOMAIN m.Params : ~C17_Refused(m, i))
             => codec.enc = CodecOut(C17_Whole(m, Len(m.Params)) \o CRLF, "nil")

\* A parameter was cut so that the line has exactly MaxLineLength bytes.
C17_Witness ==
  /\ codec.stage = "encoded"
  /\ codec.enc.err = "ErrTruncated"
  /\ Len(codec.enc.val) = MaxLineLength
  /\ Len(codec.m.Params) = 2


\* The calls the hooks get when every hook is called, in the order of
\* registration, for each of the messages, in the order they were received.
RECURSIVE C18_CallsFor(_)
C18_CallsFor(msgs) ==
  IF msgs = <<>> THEN <<>>
  ELSE [h \in 1..NumHooks |-> [hook |-> h, message |-> Head(msgs)]]
         \o C18_CallsFor(Tail(msgs))

\* C18: whenever greet or Loop is between two reads, every hook has been
\* called, in registration order, for every message received so far, PING
\* and ERROR included.
C18_HooksForEveryMessage ==
  lib.calls = C18_CallsFor(lib.read)


\* The line is body, k spaces and CRLF, and body with CRLF alone parses.
C19_Stray(line, body, k) ==
  /\ line = body \o Rep(" ", k) \o CRLF
  /\ ParseMessage(body \o CRLF).err = "nil"

\* The last parameter of body is introduced by ':'.
C19_Trailing(body) ==
  \E i \in 1..(Len(body) - 1) : body[i] = " " /\ body[i + 1] = ":"

\* C19 as stated: a line that parses with fewer than 15 parameters still
\* parses, to the same prefix, command and parameters, with one space put
\* before its CRLF, and is rejected with two or more.
C19_OneStraySpace ==
  codec.stage = "parsed" =>
    \A body \in CodecBodies : \A k \in 1..MaxStray :
      LET base == ParseMessage(body \o CRLF)
      IN  (C19_Stray(codec.line, body, k) /\ Len(base.val.Params) < 15) =>
            IF k = 1 THEN codec.dec = base ELSE codec.dec.err = "error"

\* C19 amended: with fewer than 14 parameters, the last of them not
\* introduced by ':', one space before CRLF changes nothing and two or more
\* make ParseMessage reject the line; with exactly 14 parameters the spaces
\* are read as a fifteenth parameter (empty for one space); after a ':'
\* parameter or a fifteenth parameter the spaces belong to that parameter.
C19_OneStraySpaceMiddle ==
  codec.stage = "parsed" =>
    \A body \in CodecBodies : \A k \in 1..MaxStray :
      LET base == ParseMessage(body \o CRLF)
          n == Len(base.val.Params)
      IN  C19_Stray(codec.line, body, k) =>
            IF n < 14 /\ ~C19_Trailing(body)
              THEN IF k = 1 THEN codec.dec = base ELSE codec.dec.err = "error"
            ELSE IF n = 14 /\ ~C19_Trailing(body)
              THEN codec.dec =
                     [base EXCEPT !.val.Params = Append(@, Rep(" ", k - 1))]
            ELSE codec.dec =
                   [base EXCEPT !.val.Params[n] = @ \o Rep(" ", k)]

\* A line with a middle parameter and one space before CRLF was parsed.
C19_Witness ==
  /\ codec.stage = "parsed"
  /\ codec.line = <<"P", " ", "a", " ">> \o CRLF
  /\ codec.dec = CodecOut([Prefix |-> <<>>, Command |-> <<"P">>,
                           Params |-> <<<<"a">>>>], "nil")


\* The line has at least n bytes and its last n bytes are tail.
C20_EndsWith(line, tail) ==
  /\ Len(line) >= Len(tail)
  /\ SubSeq(line, Len(line) - Len(tail) + 1, Len(line)) = tail

\* C20: fixLineEnding returns an error for a line that does not end with LF,
\* the empty line included; it returns a line ending with CRLF as it is; it
\* returns any other line ending with LF with that LF replaced by CRLF; and
\* applied to what it returned it returns the same again.
C20_FixLineEnding ==
  /\ codec.stage \in {"parsed", "fixed"} =>
       IF ~C20_EndsWith(codec.line, <<LF>>)
         THEN codec.fix.err = "error" /\ codec.fix.val = <<>>
       ELSE IF C20_EndsWith(codec.line, CRLF)
         THEN codec.fix = CodecOut(codec.line, "nil")
       ELSE codec.fix =
              CodecOut(SubSeq(codec.line, 1, Len(codec.line) - 1) \o CRLF, "nil")
  /\ codec.stage = "fixed" => codec.again = codec.fix

\* A bare LF after a CR that is not its own was replaced, and the result
\* was fixed again.
C20_Witness ==
  /\ codec.stage = "fixed"
  /\ codec.line = <<"a", CR, "a", LF>>
  /\ codec.fix.val = <<"a", CR, "a", CR, LF>>
  /\ codec.again.err = "nil"


\* The last parameters of the PRIVMSG lines in out, joined, when every line
\* is a PRIVMSG to target with a piece of 1 to most bytes; <<"bad">> otherwise.
RECURSIVE C21_Joined(_, _, _)
C21_Joined(out, target, most) ==
  IF out = <<>> THEN <<>>
  ELSE LET p == ParseMessage(Head(out))
           rest == C21_Joined(Tail(out), target, most)
       IN  IF /\ p.err = "nil"
              /\ p.val.Command = <<"P", "R", "I", "V", "M", "S", "G">>
              /\ Len(p.val.Params) = 2
              /\ p.val.Params[1] = target
              /\ Len(p.val.Params[2]) \in 1..most
              /\ rest # <<"bad">>
             THEN p.val.Params[2] \o rest
             ELSE <<"bad">>

\* C21: when Conn.Message has returned, the lines it wrote are PRIVMSGs to
\* the target, each with a non-empty piece of at most 400 bytes, and the
\* pieces joined in the order written are the message; an empty message
\* writes nothing.
C21_MessageSplit ==
  (lib.pc = "connected" /\ lib.ret = "nil") =>
     /\ C21_Joined(lib.out, lib.target, maxMessage - overhead) = lib.message
     /\ lib.message = <<>> => lib.out = <<>>


\* UID lines of the peer on connection id: one that passes every check, and
\* lines that differ from it in one field.
C22_Line(id, p, n, hop, ts, modes, user, uid, real) ==
  Msg(p, "UID", <<n, hop, ts, modes, user, <<"h">>, <<"0">>, uid, real>>)

C22_Lines(id) ==
  LET ok(p, n, modes) ==
        C22_Line(id, p, n, <<"1">>, <<"5">>, modes, <<"u">>, RemoteUID(id), <<"r">>)
  IN  {ok(p, n, modes) :
         p \in {PeerSID(id), UnknownSID, <<"x">>},
         n \in {<<"a", "l">>, <<"b", "o">>, <<"-">>},
         modes \in {<<"+">>, <<"+", "i">>, <<"+", "o", "i">>, <<"+", "w">>,
                    <<"+", "i", "w">>, <<"i">>}}
      \cup {C22_Line(id, PeerSID(id), <<"b", "o">>, hop, ts, <<"+", "i">>, user, uid, real) :
              hop \in {<<"1">>, <<"x">>, <<"3", "0", "0">>}, ts \in {<<"5">>, <<"t">>},
              user \in {<<"u">>, <<"U">>}, uid \in {RemoteUID(id), <<"x">>},
              real \in {<<"r">>}}

\* The checks the claim lists, on line m in the current state.
C22_Passes(m) ==
  /\ isValidSID(m.Prefix)
  /\ Has(Servers, m.Prefix)
  /\ isValidNick(MaxNickLength, m.Params[1])
  /\ ~Has(Nicks, canonicalizeNick(m.Params[1]))
  /\ ~ParseInt(m.Params[2], 8).err
  /\ ~ParseInt(m.Params[3], 64).err
  /\ Len(m.Params[4]) > 0
  /\ m.Params[4][1] = "+"
  /\ \A i \in 2..Len(m.Params[4]) : m.Params[4][i] \in {"i", "o"}
  /\ isValidUser(MaxNickLength, m.Params[5])
  /\ isValidUID(m.Params[8])
  /\ isValidRealName(m.Params[9])

\* C22: in every reachable state, a UID line from a linked server that
\* passes all the checks registers the user it names, and one that fails a
\* check (the mode string being '+' followed by the letters i and o only)
\* gets the link torn down and leaves the nick, user and operator tables as
\* they are.
C22_UIDChecked ==
  \A id \in ConnIDs : \A m \in C22_Lines(id) :
    (core.pc = "idle" /\ Has(LocalServers, id)) =>
      LET after == uidCommand(Cur, id, m) IN
      IF C22_Passes(m)
        THEN /\ Has(after.Users, m.Params[8])
             /\ after.Users[m.Params[8]].DisplayNick = m.Params[1]
             /\ after.Nicks = Put(Nicks, canonicalizeNick(m.Params[1]), m.Params[8])
             /\ Has(after.LocalServers, id)
        ELSE /\ ~Has(after.LocalServers, id)
             /\ id \in after.closed
             /\ after.Nicks = Nicks
             /\ after.Users = Users
             /\ after.Opers = Opers


\* SJOIN lines of the peer on connection id whose member list has a
\* malformed UID or one that is not in the user table of the current state.
C23_Lines(id) ==
  {m \in SJOINInputs(id) \cup FloodInputs(id) :
     /\ m.Command = "SJOIN"
     /\ \E i \in DOMAIN Split(m.Params[4]) :
          LET uidRaw == TrimLeftOpVoice(Split(m.Params[4])[i])
          IN  ~isValidUID(uidRaw) \/ ~Has(Users, uidRaw)}

\* C23: in every reachable state, an SJOIN from a linked server whose member
\* list has a malformed UID or a UID that is not in the user table gets the
\* link it came on torn down (ERROR queued, queue closed, link and its
\* server out of the tables), and nothing is queued to any other connection.
C23_BadMemberTearsDown ==
  \A id \in ConnIDs : \A m \in C23_Lines(id) :
    (core.pc = "idle" /\ Has(LocalServers, id) /\ Has(Servers, m.Prefix)) =>
      LET after == ServerHandleMessage(Cur, id, m) IN
      /\ ~Has(after.LocalServers, id)
      /\ ~Has(after.Servers, LocalServers[id].SID)
      /\ id \in after.closed
      /\ \A q \in ConnIDs \ {id} :
           /\ after.WriteChan[q] = WriteChan[q]
           /\ after.SendQueueExceeded[q] = SendQueueExceeded[q]

\* A link was torn down for an unknown user in an SJOIN while another link
\* is up, and no SJOIN is in the other link's queue.
C23_Witness ==
  \E id, q \in ConnIDs :
    /\ id # q
    /\ Has(LocalServers, q)
    /\ ~Has(LocalServers, id)
    /\ id \in closed
    /\ WriteChan[id] # <<>>
    /\ WriteChan[id][Len(WriteChan[id])] = Msg(TS6SID, "ERROR", <<<<"Unknown user">>>>)
    /\ \A i \in DOMAIN WriteChan[q] : WriteChan[q][i].Command # "SJOIN"


\* The messages a handler added to the queue of connection v.
NewFor(v, after) ==
  SubSeq(after.WriteChan[v], Len(WriteChan[v]) + 1, Len(after.WriteChan[v]))

\* Connection v is of a local user that is a member of a channel the user c
\* is on.
C24_Shares(v, c) ==
  \E u \in LocalUIDs(Cur, v) : \E n \in c.Channels \cap DOMAIN Channels :
    u \in Channels[n].Members

\* C24: in every reachable state, when the QUIT of a local user is handled
\* and runs through, the queue of every other connection of a local user
\* that is a member of at least one channel of the quitting user gets exactly
\* one message, the QUIT with the quitting user's nick!user@host as prefix,
\* however many channels the two share and in whatever order the members are
\* visited; the queue of every other connection gets nothing.
C24_OneQuitPerPeer ==
  \A id \in ConnIDs : \A ord \in Orders :
    (core.pc = "idle" /\ IsLocalUser(Cur, id)) =>
      LET c    == Users[UIDOf(Cur, id)]
          quit == UserHandleMessage(Cur, id, Msg(<<>>, "QUIT", <<<<"b", "y", "e">>>>), ord)
      IN  quit.core.pc = "idle" =>
            \A v \in ConnIDs \ {id} :
              NewFor(v, quit) =
                IF C24_Shares(v, c)
                  THEN <<Msg(nickUhost(c), "QUIT", <<<<"b", "y", "e">>>>)>>
                  ELSE <<>>

\* The user of connection 1 has quit; the user of connection 2 is still on
\* #c and #d, where it was put together with the first, and has exactly one
\* QUIT of the first in its queue; the linked server has none.
C24_Witness ==
  /\ 1 \in closed /\ ~IsLocalUser(Cur, 1)
  /\ IsLocalUser(Cur, 2)
  /\ Has(Channels, <<"#", "c">>) /\ LocalUID(2) \in Channels[<<"#", "c">>].Members
  /\ Has(Channels, <<"#", "d">>) /\ LocalUID(2) \in Channels[<<"#", "d">>].Members
  /\ Cardinality({i \in DOMAIN WriteChan[2] : WriteChan[2][i].Command = "QUIT"}) = 1
  /\ \E i \in DOMAIN WriteChan[2] :
       /\ WriteChan[2][i].Command = "QUIT"
       /\ WriteChan[2][i].Prefix = ChanNick(1) \o <<"!", "~", "u", "@", "i", "p">>
  /\ Has(LocalServers, MaxConns) /\ WriteChan[MaxConns] = <<>>


\* The PART lines of a user: a channel without and one with a part message.
C25_Lines ==
  {Msg(<<>>, "PART", <<<<"#", "c">>>>),
   Msg(<<>>, "PART", <<<<"#", "D">>, <<"m">>>>)}

\* C25: in every reachable state, when a PART of a local user for a channel
\* it is on is handled and runs through, every connection of a member the
\* channel had, the departing user's among them, gets exactly one message
\* in its queue, the PART with the user's nick!user@host as prefix, the
\* canonical channel name and the part message if there is one, and no other
\* connection gets anything; afterwards the user is not a member of the
\* channel and the channel is not among the user's channels; the channel is
\* gone from the channel table exactly when the user was its last member and
\* otherwise keeps its other members; no other channel changes.
C25_PartTellsAndRemoves ==
  \A id \in ConnIDs : \A ord \in Orders : \A m \in C25_Lines :
    LET uid  == UIDOf(Cur, id)
        c    == Users[uid]
        name == canonicalizeChannel(m.Params[1])
    IN  (core.pc = "idle" /\ IsLocalUser(Cur, id)
           /\ Has(Channels, name) /\ name \in c.Channels) =>
          LET after  == UserHandleMessage(Cur, id, m, ord)
              before == Channels[name].Members
              line   == Msg(nickUhost(c), "PART", <<name>> \o Tail(m.Params))
          IN  after.core.pc = "idle" =>
                /\ uid \in before
                /\ \A v \in ConnIDs :
                     NewFor(v, after) =
                       IF v \in LocalMemberIDs(Cur, before) THEN <<line>> ELSE <<>>
                /\ id \in LocalMemberIDs(Cur, before)
                /\ name \notin after.Users[uid].Channels
                /\ after.Users[uid].Channels = c.Channels \ {name}
                /\ Has(after.Channels, name) <=> before # {uid}
                /\ Has(after.Channels, name) =>
                     after.Channels[name] = [Channels[name] EXCEPT !.Members = before \ {uid}]
                /\ \A n \in DOMAIN Channels \ {name} :
                     Has(after.Channels, n) /\ after.Channels[n] = Channels[n]
                /\ DOMAIN after.Channels \subseteq DOMAIN Channels

\* The user of connection 1 has left #c, which it shared with the user of
\* connection 2: its PART is the last message in both queues, the channel is
\* left with the second user alone, and the first is no longer on it.
C25_Witness ==
  LET line == Msg(ChanNick(1) \o <<"!", "~", "u", "@", "i", "p">>, "PART", <<<<"#", "c">>>>)
  IN  /\ IsLocalUser(Cur, 1) /\ IsLocalUser(Cur, 2)
      /\ Has(Channels, <<"#", "c">>)
      /\ Channels[<<"#", "c">>].Members = {LocalUID(2)}
      /\ <<"#", "c">> \notin Users[LocalUID(1)].Channels
      /\ \A v \in {1, 2} :
           WriteChan[v] # <<>> /\ WriteChan[v][Len(WriteChan[v])] = line


\* PART lines that cannot succeed: an invalid channel name, a channel that
\* does not exist, and the channels a user may not be on.
C26_Lines ==
  {Msg(<<>>, "PART", <<<<"c">>>>),
   Msg(<<>>, "PART", <<<<"#", "x">>>>),
   Msg(<<>>, "PART", <<<<"#", "c">>>>),
   Msg(<<>>, "PART", <<<<"#", "D">>, <<"m">>>>)}

\* The text of the 403 for canonical channel name name and user c.
C26_Text(name, c) ==
  IF ~isValidChannel(name) THEN <<"Invalid channel name">>
  ELSE IF ~Has(Channels, name) THEN <<"No such channel">>
  ELSE <<"You are not on that channel">>

\* C26: in every reachable state, when a PART of a local user is handled
\* whose channel name is invalid, or names no channel of the channel table,
\* or names a channel the user is not on, exactly one message is added to
\* that user's queue, a 403 from the server, and none to any other queue;
\* the channel table, every user's record (its channels among them), the
\* nick table and the connection tables are as before, and the user's queue
\* is not closed.
C26_PartRefused ==
  \A id \in ConnIDs : \A ord \in Orders : \A m \in C26_Lines :
    LET uid  == UIDOf(Cur, id)
        c    == Users[uid]
        name == canonicalizeChannel(m.Params[1])
    IN  (core.pc = "idle" /\ IsLocalUser(Cur, id) /\ id \notin closed
           /\ Len(WriteChan[id]) < WriteChanCap
           /\ (~isValidChannel(name) \/ ~Has(Channels, name) \/ name \notin c.Channels)) =>
          LET after == UserHandleMessage(Cur, id, m, ord)
          IN  /\ after.core.pc = "idle"
              /\ NewFor(id, after)
                   = <<UserMessageFromServer(Cur, id, "403", <<name, C26_Text(name, c)>>).m>>
              /\ NewFor(id, after)[1].Command = "403"
              /\ \A v \in ConnIDs \ {id} : NewFor(v, after) = <<>>
              /\ after.Channels = Channels
              /\ after.Users = Users
              /\ after.Nicks = Nicks
              /\ after.LocalServers = LocalServers
              /\ after.UnregisteredClients = UnregisteredClients
              /\ after.closed = closed
              /\ after.SendQueueExceeded = SendQueueExceeded

\* The user of connection 1 is on #d and not on #c, which the user of
\* connection 2 is on; the last message in its queue is the 403 for #c, and
\* the queue of the other user is empty.
C26_Witness ==
  /\ IsLocalUser(Cur, 1) /\ IsLocalUser(Cur, 2) /\ 1 \notin closed
  /\ Users[LocalUID(1)].Channels = {<<"#", "d">>}
  /\ Has(Channels, <<"#", "c">>) /\ Channels[<<"#", "c">>].Members = {LocalUID(2)}
  /\ WriteChan[2] = <<>>
  /\ WriteChan[1] # <<>>
  /\ LET last == WriteChan[1][Len(WriteChan[1])]
     IN  /\ last.Command = "403"
         /\ last.Params[Len(last.Params) - 1] = <<"#", "c">>
         /\ last.Params[Len(last.Params)] = <<"You are not on that channel">>


\* The SVINFO that ends the handshake of a linking server.
SVINFOLine == Msg(<<>>, "SVINFO", <<<<"6">>, <<"6">>, <<"0">>, <<"t">>>>)

\* Connection id has sent PASS, CAPAB and SERVER, its SID is free and the
\* core can take its next line: its SVINFO makes it a linked server.
AboutToLink(id) ==
  /\ core.pc = "idle"
  /\ Has(UnregisteredClients, id)
  /\ {"PASS", "CAPAB", "SERVER"} \subseteq UnregisteredClients[id].Got
  /\ ~Has(Servers, UnregisteredClients[id].PreRegTS6SID)
  /\ id \notin closed
  /\ Drained

\* The place of a message in what is sent to a peer that has linked.
C27_Class(m) ==
  IF m.Command = "SVINFO" THEN 0
  ELSE IF m.Command = "SID" THEN 1
  ELSE IF m.Command = "UID" THEN 2
  ELSE IF m.Command = "SJOIN" THEN 3
  ELSE IF m.Command = "PING" THEN 4
  ELSE 5

\* The memberships of the channel table.
C27_Pairs == {p \in (DOMAIN Channels) \X (UNION {Channels[n].Members : n \in DOMAIN Channels}) :
                p[2] \in Channels[p[1]].Members}

\* In the sequence new the SIDs come before the UIDs, these before the
\* SJOINs and these before the PING, and an SJOIN names a user that a UID
\* before it introduced.
C27_Ordered(new) ==
  /\ \A i, j \in DOMAIN new : i < j => C27_Class(new[i]) <= C27_Class(new[j])
  /\ \A j \in DOMAIN new : new[j].Command = "SJOIN" =>
       \E i \in 1..(j - 1) : new[i].Command = "UID" /\ new[i].Params[8] = new[j].Params[4]

\* In the sequence new every membership has exactly one SJOIN, there is no
\* other SJOIN, and the last message is the PING with the local SID.
C27_Complete(new) ==
  /\ \A p \in C27_Pairs :
       Cardinality({i \in DOMAIN new : /\ new[i].Command = "SJOIN"
                                        /\ new[i].Params[2] = p[1]
                                        /\ new[i].Params[4] = p[2]}) = 1
  /\ Cardinality({i \in DOMAIN new : new[i].Command = "SJOIN"}) = Cardinality(C27_Pairs)
  /\ new # <<>>
  /\ new[Len(new)] = Msg(<<>>, "PING", <<TS6SID>>)
  /\ Cardinality({i \in DOMAIN new : new[i].Command = "PING"}) = 1

\* C27 as stated: in every reachable state, when the SVINFO of a linking
\* server is handled, the messages added to its queue have every SID before
\* every UID, every UID before every SJOIN, exactly one SJOIN per membership
\* and the PING after them all, and every SJOIN names a user introduced by a
\* UID before it.
C27_BurstOrder ==
  \A id \in ConnIDs :
    AboutToLink(id) =>
      LET new == NewFor(id, ClientHandleMessage(Cur, id, SVINFOLine))
      IN  C27_Ordered(new) /\ C27_Complete(new)

\* C27, amended: in every reachable state, when the SVINFO of a linking
\* server is handled, the messages added to its queue have every SID before
\* every UID, every UID before every SJOIN and the PING, if there is one,
\* after them all, and every SJOIN names a user introduced by a UID before
\* it; when the queue had room for them all (the link is not flagged
\* send-queue-exceeded afterwards) there is exactly one SJOIN per membership
\* and the PING is the last message; when it had not, the link is flagged
\* and what did not fit is missing, the PING included.
C27_BurstOrderWhenRoom ==
  \A id \in ConnIDs :
    AboutToLink(id) =>
      LET after == ClientHandleMessage(Cur, id, SVINFOLine)
          new   == NewFor(id, after)
      IN  /\ C27_Ordered(new)
          /\ Has(after.LocalServers, id)
          /\ IF after.SendQueueExceeded[id]
               THEN /\ \A i \in DOMAIN new : new[i].Command # "PING"
                    /\ \/ SendQueueExceeded[id]
                       \/ Len(after.WriteChan[id]) = WriteChanCap
               ELSE C27_Complete(new)

\* A server has linked while the daemon knew a server, a user and a channel
\* with that user on it: its queue ends with the SID, the UID, the SJOIN and
\* the PING, in this order.
C27_Witness ==
  \E id \in ConnIDs :
    /\ Has(LocalServers, id)
    /\ ~SendQueueExceeded[id]
    /\ Len(WriteChan[id]) >= 4
    /\ LET n == Len(WriteChan[id])
       IN  /\ WriteChan[id][n - 3].Command = "SID"
           /\ WriteChan[id][n - 2].Command = "UID"
           /\ WriteChan[id][n - 1].Command = "SJOIN"
           /\ WriteChan[id][n - 1].Params[4] = WriteChan[id][n - 2].Params[8]
           /\ WriteChan[id][n] = Msg(<<>>, "PING", <<TS6SID>>)


\* The servers the burst to the peer on connection id has to name: all of
\* the server table after but the peer itself and those behind it.
C28_Expected(id, after) ==
  {x \in DOMAIN after.Servers : after.Servers[x].Link # id}

\* The places of the SIDs that name server x in the sequence new.
C28_SIDsOf(new, x) ==
  {i \in DOMAIN new : new[i].Command = "SID" /\ new[i].Params[3] = x}

\* Every SID of the sequence new names a server that is to be named, with
\* its name, its stored hop count plus one and its description, and no
\* server is named twice.
C28_Sound(id, after, new) ==
  /\ \A i \in DOMAIN new : new[i].Command = "SID" =>
       /\ new[i].Params[3] \in C28_Expected(id, after)
       /\ new[i].Params[3] # after.LocalServers[id].SID
       /\ LET srv == after.Servers[new[i].Params[3]]
          IN  new[i] = Msg(TS6SID, "SID",
                           <<srv.Name, FormatInt(srv.HopCount + 1),
                             new[i].Params[3], srv.Description>>)
  /\ \A x \in DOMAIN after.Servers : Cardinality(C28_SIDsOf(new, x)) <= 1

\* C28 as stated: in every reachable state, when the SVINFO of a linking
\* server P is handled, the messages added to P's queue hold exactly one SID
\* for every server of the server table but P and the servers whose next hop
\* is P, with the stored hop count plus one, and none for those.
C28_BurstSIDs ==
  \A id \in ConnIDs :
    AboutToLink(id) =>
      LET after == ClientHandleMessage(Cur, id, SVINFOLine)
          new   == NewFor(id, after)
      IN  /\ C28_Sound(id, after, new)
          /\ \A x \in C28_Expected(id, after) : C28_SIDsOf(new, x) # {}

\* C28, amended: in every reachable state, when the SVINFO of a linking
\* server P is handled, every SID added to P's queue names a server of the
\* server table that is neither P nor behind P, with the stored hop count
\* plus one, and none is named twice; when P's queue had room for the burst
\* (P is not flagged send-queue-exceeded afterwards) every such server is
\* named.
C28_BurstSIDsWhenRoom ==
  \A id \in ConnIDs :
    AboutToLink(id) =>
      LET after == ClientHandleMessage(Cur, id, SVINFOLine)
          new   == NewFor(id, after)
      IN  /\ C28_Sound(id, after, new)
          /\ ~after.SendQueueExceeded[id] =>
               \A x \in C28_Expected(id, after) : C28_SIDsOf(new, x) # {}

\* A server has linked on connection 2 after the one on connection 1 had
\* introduced a server behind it with hop count 7: its queue has the SID of
\* the first with hop count 2 and that of the server behind it with hop
\* count 8, and none of its own.
C28_Witness ==
  /\ Has(LocalServers, 1) /\ Has(LocalServers, 2)
  /\ ~SendQueueExceeded[2]
  /\ \E i \in DOMAIN WriteChan[2] :
       WriteChan[2][i] = Msg(TS6SID, "SID", <<PeerName(1), <<"2">>, PeerSID(1), <<"d">>>>)
  /\ \E i \in DOMAIN WriteChan[2] :
       WriteChan[2][i] = Msg(TS6SID, "SID", <<<<"b", "1">>, <<"8">>, BehindSID(1), <<"d">>>>)
  /\ \A i \in DOMAIN WriteChan[2] :
       WriteChan[2][i].Command = "SID" => WriteChan[2][i].Params[3] # PeerSID(2)


\* The PRIVMSG and NOTICE lines of the user of the server on connection id
\* for the users of the first two connections.
C29_Lines(id) ==
  {Msg(RemoteUID(id), c, <<LocalUID(x), <<"h", "i">>>>) :
     c \in {"PRIVMSG", "NOTICE"}, x \in {1, 2}}

\* The core can take the line m of a linked server, whose source is a known
\* user and whose target is a local one.
C29_ToLocal(id, m) ==
  /\ core.pc = "idle"
  /\ Drained
  /\ Has(LocalServers, id)
  /\ Has(Users, m.Prefix)
  /\ Has(Users, m.Params[1])
  /\ Users[m.Params[1]].LocalUser # 0

\* What the target gets: the source as nick!user@host, its own nick, the text.
C29_Delivered(m) ==
  Msg(nickUhost(Users[m.Prefix]), m.Command,
      <<Users[m.Params[1]].DisplayNick>> \o Tail(m.Params))

\* Nothing but the queue of connection v changed.
C29_OnlyQueue(v, after) ==
  /\ after.core.pc = "idle"
  /\ \A q \in ConnIDs \ {v} : after.WriteChan[q] = WriteChan[q]
  /\ after.Users = Users /\ after.Nicks = Nicks /\ after.Channels = Channels
  /\ after.Servers = Servers /\ after.LocalServers = LocalServers
  /\ after.closed = closed

\* C29 as stated: in every reachable state, a PRIVMSG or NOTICE from a
\* linked server with a known source UID and the UID of a local user as
\* target adds one message to that user's queue, with the source's
\* nick!user@host as prefix, the target's display nick as first parameter
\* and the text as it came, and nothing to any other queue.
C29_DeliveredToLocalUser ==
  \A id \in ConnIDs : \A m \in C29_Lines(id) :
    C29_ToLocal(id, m) =>
      LET v     == Users[m.Params[1]].LocalUser
          after == ServerHandleMessage(Cur, id, m)
      IN  /\ C29_OnlyQueue(v, after)
          /\ NewFor(v, after) = <<C29_Delivered(m)>>

\* C29, amended: the same when the user's queue has room and is not flagged
\* send-queue-exceeded; when the queue is full the message is dropped and
\* the user's connection is flagged, and when it is flagged already the
\* message is dropped; no other queue gets anything in either case.
C29_DeliveredWhenRoom ==
  \A id \in ConnIDs : \A m \in C29_Lines(id) :
    C29_ToLocal(id, m) =>
      LET v     == Users[m.Params[1]].LocalUser
          after == ServerHandleMessage(Cur, id, m)
      IN  /\ C29_OnlyQueue(v, after)
          /\ IF ~SendQueueExceeded[v] /\ Len(WriteChan[v]) < WriteChanCap
               THEN /\ NewFor(v, after) = <<C29_Delivered(m)>>
                    /\ after.SendQueueExceeded = SendQueueExceeded
               ELSE /\ NewFor(v, after) = <<>>
                    /\ after.SendQueueExceeded = [SendQueueExceeded EXCEPT ![v] = TRUE]

\* The NOTICE of the linked server's user for the user of connection 1 is
\* the last message in that user's queue, from nick!user@host to the user's
\* nick; the queues of the link and of the other user are empty.
C29_Witness ==
  /\ IsLocalUser(Cur, 1) /\ IsLocalUser(Cur, 2) /\ Has(LocalServers, MaxConns)
  /\ Has(Users, RemoteUID(MaxConns))
  /\ WriteChan[1] # <<>>
  /\ WriteChan[1][Len(WriteChan[1])]
       = Msg(<<"u", Digits[MaxConns + 1], "!", "~", "u", "@">> \o Users[RemoteUID(MaxConns)].IP,
             "NOTICE", <<ChanNick(1), <<"h", "i">>>>)
  /\ WriteChan[2] = <<>> /\ WriteChan[MaxConns] = <<>>


\* The core can take the PING m, which has a parameter, of the linked server
\* on connection id.
C30_Pinged(id, m) ==
  /\ core.pc = "idle"
  /\ Drained
  /\ Has(LocalServers, id)
  /\ Len(m.Params) >= 1

\* The origin of the PING m of connection id: its prefix, or the SID of the
\* peer when it has none.
C30_Origin(id, m) == IF m.Prefix = <<>> THEN LocalServers[id].SID ELSE m.Prefix

\* The answer to the PING m of connection id.
C30_Answer(id, m) ==
  IF Has(Servers, C30_Origin(id, m))
    THEN Msg(TS6SID, "PONG", <<ServerName, C30_Origin(id, m)>>)
    ELSE Msg(TS6SID, "402", <<C30_Origin(id, m), <<"No such server">>>>)

\* C30 as stated: in every reachable state, a PING of a linked server with a
\* parameter adds exactly one message to the queue of that link: the PONG
\* with the local server name and the origin SID when the origin is in the
\* server table, and the 402 when it is not, in which case the link's record
\* (its burst flags) stays as it is.
C30_PingAnswered ==
  \A id \in ConnIDs : \A m \in LocalPINGs(id) :
    C30_Pinged(id, m) =>
      LET after == ServerHandleMessage(Cur, id, m)
      IN  /\ NewFor(id, after) = <<C30_Answer(id, m)>>
          /\ ~Has(Servers, C30_Origin(id, m)) => after.LocalServers = LocalServers

\* C30, amended: the same when the link's queue has room and is not flagged
\* send-queue-exceeded; otherwise nothing is added to it and the link is
\* flagged.  In either case no PONG is added for an unknown origin, whose
\* PING leaves the link's record as it is.
C30_PingAnsweredWhenRoom ==
  \A id \in ConnIDs : \A m \in LocalPINGs(id) :
    C30_Pinged(id, m) =>
      LET after == ServerHandleMessage(Cur, id, m)
      IN  /\ after.core.pc = "idle"
          /\ IF ~SendQueueExceeded[id] /\ Len(WriteChan[id]) < WriteChanCap
               THEN /\ NewFor(id, after) = <<C30_Answer(id, m)>>
                    /\ ~after.SendQueueExceeded[id]
               ELSE /\ NewFor(id, after) = <<>>
                    /\ after.SendQueueExceeded[id]
          /\ ~Has(Servers, C30_Origin(id, m)) =>
               /\ after.LocalServers = LocalServers
               /\ \A i \in DOMAIN NewFor(id, after) : NewFor(id, after)[i].Command # "PONG"

\* The linked server has pinged in the name of the server behind it: the
\* PONG with the local server name and that server's SID is the last message
\* in its queue.
C30_Witness ==
  /\ Has(LocalServers, MaxConns)
  /\ Has(Servers, BehindSID(MaxConns))
  /\ ~SendQueueExceeded[MaxConns]
  /\ WriteChan[MaxConns] # <<>>
  /\ WriteChan[MaxConns][Len(WriteChan[MaxConns])]
       = Msg(TS6SID, "PONG", <<ServerName, BehindSID(MaxConns)>>)


\* The core can take the next line of connection id, which has not
\* registered.
C31_Unregistered(id) ==
  /\ core.pc = "idle"
  /\ Drained
  /\ Has(UnregisteredClients, id)
  /\ id \notin closed

\* The 451 for connection id.
C31_Reply(id) ==
  Msg(ServerName, "451",
      <<IF UnregisteredClients[id].PreRegDisplayNick = <<>>
          THEN <<"*">> ELSE UnregisteredClients[id].PreRegDisplayNick,
        <<"You have not registered.">>>>)

\* The tables, the closed queues and the queues of the other connections
\* are as before.
C31_Untouched(id, after) ==
  /\ after.core.pc = "idle"
  /\ after.UnregisteredClients = UnregisteredClients
  /\ after.LocalServers = LocalServers /\ after.Servers = Servers
  /\ after.Users = Users /\ after.Nicks = Nicks /\ after.Channels = Channels
  /\ after.closed = closed
  /\ \A q \in ConnIDs \ {id} : after.WriteChan[q] = WriteChan[q]

\* C31 as stated: in every reachable state, a command of an unregistered
\* connection that Client.handleMessage has no case for adds the numeric
\* 451 to the connection's queue and nothing else; the connection stays in
\* the unregistered table with its pre-registration fields and handshake
\* flags as they were, and its queue stays open.
C31_NotRegistered ==
  \A id \in ConnIDs : \A m \in UnregCommands :
    C31_Unregistered(id) =>
      LET after == handleMessageEvent(Cur, id, m, [i \in ConnIDs |-> i])
      IN  /\ C31_Untouched(id, after)
          /\ NewFor(id, after) = <<C31_Reply(id)>>

\* C31, amended: the same when the connection's queue has room and is not
\* flagged send-queue-exceeded; when the queue is full the 451 is dropped
\* and the connection is flagged, and when it is flagged already the 451 is
\* dropped; the tables and the open queue stay as they were in either case.
C31_NotRegisteredWhenRoom ==
  \A id \in ConnIDs : \A m \in UnregCommands :
    C31_Unregistered(id) =>
      LET after == handleMessageEvent(Cur, id, m, [i \in ConnIDs |-> i])
      IN  /\ C31_Untouched(id, after)
          /\ IF ~SendQueueExceeded[id] /\ Len(WriteChan[id]) < WriteChanCap
               THEN /\ NewFor(id, after) = <<C31_Reply(id)>>
                    /\ after.SendQueueExceeded = SendQueueExceeded
               ELSE /\ NewFor(id, after) = <<>>
                    /\ after.SendQueueExceeded = [SendQueueExceeded EXCEPT ![id] = TRUE]

\* A connection that has sent NICK and PASS and then a command it has to be
\* registered for: the 451 with its nick is the last message in its queue,
\* and it is in the unregistered table with its nick and its PASS.
C31_Witness ==
  \E id \in ConnIDs :
    /\ Has(UnregisteredClients, id)
    /\ id \notin closed
    /\ UnregisteredClients[id].PreRegDisplayNick = ChanNick(id)
    /\ "PASS" \in UnregisteredClients[id].Got
    /\ WriteChan[id] # <<>>
    /\ WriteChan[id][Len(WriteChan[id])]
         = Msg(ServerName, "451", <<ChanNick(id), <<"You have not registered.">>>>)


(***************************************************************************)
(* The reader of a connection, from the bytes of a line to the event it    *)
(* sends to the core.                                                      *)
(***************************************************************************)
\* maxLineLength of the daemon's connection; it includes CRLF.
maxLineLength == 512

\* A line of n bytes that parses: NICK and a nick that fills the line.
NickLine(n) == LibLine(<<"N", "I", "C", "K">>, <<" ">> \o Rep("a", n - 7))

\* Lines that parse and are no longer than maxLineLength.
GoodLines ==
  {LibLine(<<"N", "I", "C", "K">>, <<" ", "a", "l">>),
   LibLine(<<"F", "O", "O">>, <<>>),
   LibLine(<<"E", "R", "R", "O", "R">>, <<" ", ":", "b", "y", "e">>),
   NickLine(maxLineLength)}

\* A line of more than maxLineLength bytes.
LongLines == {NickLine(maxLineLength + 1)}

\* Lines that are no message: a prefix and no command, and no CRLF.
MalformedLines == {LibLine(<<":">>, <<>>), <<"N", "I", "C", "K">>}

\* What c.read() returns: a line, or an error (the deadline passed, or the
\* peer closed the connection).
ReadResults ==
  {[err |-> "nil", line |-> l] : l \in GoodLines \cup LongLines \cup MalformedLines}
    \cup {[err |-> "error", line |-> <<>>]}

\* Conn.ReadMessage, given what c.read() returned and what parsing the line
\* gives.
ReadMessage(r, parsed) ==
  IF r.err # "nil" THEN CodecOut(NoMessage, "error")
  ELSE IF Len(r.line) > maxLineLength THEN CodecOut(NoMessage, "error")
  ELSE IF parsed.err # "nil" THEN CodecOut(NoMessage, "error")
  ELSE CodecOut(parsed.val, "nil")

\* The command of a message as the handlers' switch reads it.
CommandOf(bytes) ==
  IF bytes = <<"N", "I", "C", "K">> THEN "NICK"
  ELSE IF bytes = <<"E", "R", "R", "O", "R">> THEN "ERROR"
  ELSE "FOO"

\* The message of the event, from the message the codec returned.
EventMessage(m) == Msg(m.Prefix, CommandOf(m.Command), m.Params)

\* A readLoop that goes on reading after an error.
readLoopNoBreak(id, r, out) ==
  LET e == IF out.err # "nil" THEN DeadClientEvent(id)
           ELSE MessageFromClientEvent(id, EventMessage(out.val))
  IN  /\ events' = Append(events, e)
      /\ reader' = reader
      /\ hist' = [hist EXCEPT ![id].read = Append(@, [in |-> r, event |-> e])]

\* One turn of readLoop's loop, given what ReadMessage returned: an error
\* is a DeadClientEvent and the end of the loop, a message is a
\* MessageFromClientEvent.
readLoopBody(id, r, out) ==
  LET e == IF out.err # "nil" THEN DeadClientEvent(id)
           ELSE MessageFromClientEvent(id, EventMessage(out.val))
  IN  /\ events' = Append(events, e)
      /\ reader' = [reader EXCEPT ![id] = IF out.err # "nil" THEN "dead" ELSE @]
      /\ hist' = [hist EXCEPT ![id].read = Append(@, [in |-> r, event |-> e])]

\* Lines read from all connections in one run of the readers.
MaxLinesRead == 4

\* readLoop reads from the connection.
ReadLoopLine(id) ==
  /\ reader[id] = "running"
  /\ lines < MaxLinesRead
  /\ \E r \in ReadResults :
       readLoopBody(id, r, ReadMessage(r, ParseMessage(r.line)))
  /\ lines' = lines + 1
  /\ UNCHANGED <<nextID, UnregisteredClients, LocalServers, Servers, Users,
                 Nicks, Channels, Opers, WriteChan, closed, SendQueueExceeded,
                 writer, core, tsID, tsOut, codec, lib>>

\* The core takes a message event off its queue and handles it.
CoreReadEvent ==
  /\ core.pc = "idle"
  /\ events # <<>>
  /\ Drained
  /\ Head(events).Type = "MessageFromClientEvent"
  /\ \E ord \in OrdersFor(Head(events).Client) :
       Apply(handleMessageEvent(Cur, Head(events).Client, Head(events).Message, ord))
  /\ events' = Tail(events)
  /\ UNCHANGED <<nextID, reader, writer, lines, tsID, tsOut, codec, lib, hist>>

\* Readers that read good and bad lines and fail, and a core that takes
\* their events.
NextRead ==
  \/ AcceptAny(FALSE)
  \/ \E id \in ConnIDs : ReadLoopLine(id)
  \/ CoreReadEvent
  \/ CoreDeadClient
  \/ \E id \in ConnIDs : WriteLoop(id)
  \/ \E id \in ConnIDs : WriteLoopDone(id)

SpecRead == Init /\ [][NextRead]_vars

\* What the reader of connection id did, read by read.
C32_Log(id) == hist[id].read

\* The read failed, or the line is too long or is no message.
C32_Bad(r) == r.err # "nil" \/ r.line \in LongLines \cup MalformedLines

\* The reader's log: a bad read gave a dead-connection event and nothing
\* else, a good one a message event with the line's message; a
\* dead-connection event is the last thing the reader did, and the reader
\* has ended exactly when it sent one.
C32_LogRight ==
  \A id \in ConnIDs :
    /\ \A k \in DOMAIN C32_Log(id) :
         LET r == C32_Log(id)[k].in
             e == C32_Log(id)[k].event
         IN  /\ e.Client = id
             /\ C32_Bad(r) <=> e.Type = "DeadClientEvent"
             /\ ~C32_Bad(r) =>
                  /\ e.Type = "MessageFromClientEvent"
                  /\ e.Message.Command = CommandOf(SubSeq(r.line, 1, Len(e.Message.Command)))
             /\ e.Type = "DeadClientEvent" => k = Len(C32_Log(id))
    /\ reader[id] = "dead" <=>
         /\ C32_Log(id) # <<>>
         /\ C32_Log(id)[Len(C32_Log(id))].event.Type = "DeadClientEvent"

\* A step in which a reader reads puts exactly its one event on the core's
\* queue, and a reader that has ended reads no more.
C32_OneEvent ==
  \A id \in ConnIDs :
    /\ hist'[id].read # hist[id].read =>
         /\ reader[id] = "running"
         /\ Len(hist'[id].read) = Len(hist[id].read) + 1
         /\ events' = Append(events, hist'[id].read[Len(hist'[id].read)].event)
    /\ reader[id] = "dead" =>
         /\ reader'[id] = "dead"
         /\ Len(events') > Len(events) => events'[Len(events')].Client # id

C33_Prefix(q, r) == Len(q) <= Len(r) /\ SubSeq(r, 1, Len(q)) = q

\* A step changes the queue of connection id in one of two ways: messages
\* are put behind the ones that wait, or the oldest one is taken to be
\* written; and a writer whose writes did not fail ends (and closes the
\* connection) only when its queue is closed and nothing waits in it.
C33_Step ==
  \A id \in ConnIDs :
    /\ \/ C33_Prefix(WriteChan[id], WriteChan'[id])
       \/ /\ WriteChan[id] # <<>>
          /\ WriteChan'[id] = Tail(WriteChan[id])
          /\ writer[id] \in {"running", "stalled"}
    /\ writer[id] # "done" /\ writer'[id] = "done" =>
         /\ id \in closed
         /\ WriteChan[id] = <<>>
         /\ WriteChan'[id] = <<>>
    /\ id \in closed => id \in closed'

\* C33: every message put in a connection's queue before the core closes it,
\* the final ERROR included, is written in the order it was queued before
\* the writer closes the connection, provided no write fails; once the queue
\* is closed and drained the writer ends.
C33_WriterDrainsInOrder ==
  /\ [][C33_Step]_vars
  /\ \A id \in ConnIDs :
       (id \in closed /\ writer[id] = "running") ~> (writer[id] = "done")

\* The queue of a connection was closed, its writer wrote what was in it
\* and ended.
C33_Witness ==
  \E id \in ConnIDs :
    /\ id \in closed
    /\ writer[id] = "done"
    /\ WriteChan[id] = <<>>
    /\ ~SendQueueExceeded[id]

\* C34: in every reachable state between two handlers, a UID is among a
\* channel's members exactly when the channel is in that user's set of
\* joined channels, and every member of a channel is in the user table.
C34_MembershipConsistent ==
  core.pc = "idle" =>
    /\ \A name \in DOMAIN Channels : \A uid \in Channels[name].Members :
         /\ Has(Users, uid)
         /\ name \in Users[uid].Channels
    /\ \A uid \in DOMAIN Users : \A name \in Users[uid].Channels :
         /\ Has(Channels, name)
         /\ uid \in Channels[name].Members

\* The tables connection id is in.
C35_Tables(s, id) ==
  (IF Has(s.UnregisteredClients, id) THEN {"unregistered"} ELSE {})
  \cup (IF IsLocalUser(s, id) THEN {"user"} ELSE {})
  \cup (IF Has(s.LocalServers, id) THEN {"server"} ELSE {})

\* Between two handlers an accepted connection whose queue is open is in
\* exactly one table, and one whose queue is closed, or that was not
\* accepted yet, is in none.
C35_OneTable ==
  core.pc = "idle" =>
    \A id \in ConnIDs :
      IF id < nextID /\ id \notin closed
        THEN Cardinality(C35_Tables(Cur, id)) = 1
        ELSE C35_Tables(Cur, id) = {}

\* A step moves a connection from the unregistered table to the user table
\* or to the server table, takes it out of its table, or leaves it where it
\* is; a connection that left the tables stays out of them.
C35_Moves ==
  (core.pc = "idle" /\ core'.pc = "idle") =>
    \A id \in ConnIDs :
      LET before == C35_Tables(Cur, id)
          after  == C35_Tables(Cur, id)'
      IN  /\ before = {"unregistered"} =>
               after \in {{"unregistered"}, {"user"}, {"server"}, {}}
          /\ before = {"user"} => after \in {{"user"}, {}}
          /\ before = {"server"} => after \in {{"server"}, {}}
          /\ (before = {} /\ id < nextID) => after = {}

\* C35: in every reachable state each live connection is in exactly one of
\* the unregistered, local-user and local-server tables; registration as a
\* user or as a server takes it out of the unregistered table and puts it in
\* exactly one of the other two; and a closed connection is in none.
C35_ExactlyOneTable == []C35_OneTable /\ [][C35_Moves]_vars

\* One connection has registered as a user, one as a server, and a third
\* was closed and is in no table.
C35_Witness ==
  /\ core.pc = "idle"
  /\ \E a, b, c \in ConnIDs :
       /\ C35_Tables(Cur, a) = {"user"} /\ a \notin closed
       /\ C35_Tables(Cur, b) = {"server"} /\ b \notin closed
       /\ c \in closed /\ C35_Tables(Cur, c) = {}

\* The messages a linked server may pass on for its user.
C36_Lines(id) ==
  {Msg(RemoteUID(id), c, <<RemoteUID(x), <<"h", "i">>>>) :
     c \in {"PRIVMSG", "NOTICE"}, x \in ConnIDs}

\* C36: no message is sent to a connection's outbound queue after the queue
\* was closed: in every reachable state in which the core takes a line, the
\* handler of a message that a linked server passes on for its user does
\* not end in the fault of a send on a closed queue.
C36_NoSendOnClosedQueue ==
  (core.pc = "idle" /\ Drained) =>
    \A id \in ConnIDs : \A m \in C36_Lines(id) :
      (Has(LocalServers, id) /\ Has(Users, m.Prefix)) =>
        ServerHandleMessage(Cur, id, m).core.pc # "panicked"


(***************************************************************************)
(* Connections that end: a user and a server register line by line, and   *)
(* at any point the peer may send a line that ends the connection, its     *)
(* reader may fail and a write to it may fail.                             *)
(***************************************************************************)
\* Lines read from all connections in one run of connections that end.
MaxLinesQuit == 6

\* The lines that register connection id, in their order.
QuitScript(id) ==
  IF id = 1
    THEN <<Msg(<<>>, "NICK", <<ChanNick(id)>>),
           Msg(<<>>, "USER", <<<<"u">>, <<"0">>, <<"*">>, <<"r">>>>)>>
    ELSE <<Msg(<<>>, "PASS", <<<<"p", "w">>, <<"T", "S">>, <<"6">>, PeerSID(id)>>),
           Msg(<<>>, "CAPAB", <<<<"Q", "S">>>>),
           Msg(<<>>, "SERVER", <<PeerName(id), <<"1">>, <<"d">>>>),
           Msg(<<>>, "SVINFO", <<<<"6">>, <<"6">>, <<"0">>, <<"t">>>>)>>

\* Lines that end a connection: ERROR for an unregistered connection and a
\* server, QUIT for a user, and a UID of an unknown server, which a linked
\* server is quit for.
TerminalLines(id) ==
  {Msg(<<>>, "ERROR", <<<<"bye">>>>), Msg(<<>>, "QUIT", <<<<"bye">>>>)}
  \cup (IF id = 1 THEN {}
        ELSE {Msg(UnknownSID, "UID",
                  <<<<"a", "l">>, <<"1">>, <<"5">>, <<"+">>, <<"u">>, <<"h">>,
                    <<"0">>, UnknownUID, <<"r">>>>)})

\* The lines the reader of connection id may read after it has read the
\* lines of read: the next line that registers it, or a line that ends it;
\* the peer sends at most two lines that end it.
QuitInputs(id, read) ==
  (IF \A i \in DOMAIN read : i <= Len(QuitScript(id)) /\ read[i] = QuitScript(id)[i]
     THEN (IF Len(read) < Len(QuitScript(id))
             THEN {QuitScript(id)[Len(read) + 1]} ELSE {})
     ELSE {})
  \cup (IF Cardinality({i \in DOMAIN read : read[i] \in TerminalLines(id)}) < 2
         THEN TerminalLines(id) ELSE {})

\* readLoop read a line of a connection that registers and ends.
ReadLoopQuit(id) ==
  /\ reader[id] = "running"
  /\ lines < MaxLinesQuit
  /\ \E m \in QuitInputs(id, hist[id].read) :
       /\ events' = Append(events, MessageFromClientEvent(id, m))
       /\ hist' = [hist EXCEPT ![id].read = Append(@, m)]
  /\ lines' = lines + 1
  /\ UNCHANGED <<nextID, UnregisteredClients, LocalServers, Servers, Users,
                 Nicks, Channels, Opers, WriteChan, closed, SendQueueExceeded,
                 writer, reader, core, tsID, tsOut, codec, lib>>

NextQuit ==
  \/ \E stalled \in BOOLEAN : AcceptAny(stalled)
  \/ \E id \in ConnIDs : ReadLoopQuit(id)
  \/ \E id \in ConnIDs : ReadLoopFail(id)
  \/ CoreReadEvent
  \/ CoreDeadClient
  \/ CoreResume
  \/ \E id \in ConnIDs : WriteLoop(id)
  \/ \E id \in ConnIDs : WriteLoopDone(id)
  \/ \E id \in ConnIDs : WriteLoopFail(id)

SpecQuit == Init /\ [][NextQuit]_vars

\* What the core keeps of connection id besides its queue.
C37_Entries(id) ==
  <<InSomeTable(Cur, id), id \in closed, SendQueueExceeded[id]>>

\* A step on a connection whose queue is closed: the queue stays closed, no
\* message is put in it, the connection stays out of the tables, and the
\* tables of the daemon are as they were when the step took one of the
\* connection's events.
C37_Step ==
  \A id \in ConnIDs :
    id \in closed =>
      /\ id \in closed'
      /\ ~InSomeTable(Cur, id)'
      /\ WriteChan'[id] = WriteChan[id] \/ WriteChan'[id] = Tail(WriteChan[id])
      /\ (core.pc = "idle" /\ events # <<>> /\ Head(events).Client = id
            /\ events' = Tail(events)) =>
           UNCHANGED <<UnregisteredClients, LocalServers, Servers, Users, Nicks,
                       Channels, Opers, WriteChan, closed, SendQueueExceeded, core>>

C38_NicksAgreeWithUsers ==
  core.pc = "idle" =>
    /\ \A n1, n2 \in DOMAIN Nicks : Nicks[n1] = Nicks[n2] => n1 = n2
    /\ \A n \in DOMAIN Nicks :
         Has(Users, Nicks[n]) => canonicalizeNick(Users[Nicks[n]].DisplayNick) = n
    /\ \A uid \in DOMAIN Users :
         /\ Has(Nicks, canonicalizeNick(Users[uid].DisplayNick))
         /\ Nicks[canonicalizeNick(Users[uid].DisplayNick)] = uid

\* A SID line from the server on connection id that names sid.
C39_Line(id, sid) ==
  Msg(PeerSID(id), "SID", <<<<"s", "9">>, <<"2">>, sid, <<"d">>>>)

\* C39: a SID message that names an SID which is already in the server
\* table does not replace the entry: in every reachable state in which the
\* core takes a line, after the handler of such a line from a linked server
\* the table has for that SID the entry it had, or no entry.
C39_KnownSIDNotReplaced ==
  (core.pc = "idle" /\ Drained) =>
    \A id \in ConnIDs : \A sid \in DOMAIN Servers :
      (Has(LocalServers, id) /\ Has(Servers, PeerSID(id))) =>
        LET after == ServerHandleMessage(Cur, id, C39_Line(id, sid))
        IN  Has(after.Servers, sid) => after.Servers[sid] = Servers[sid]

\* The parameters of a UID line, all nine of them.
C40_Params(id) ==
  <<<<"a", "l">>, <<"1">>, <<"5">>, <<"+">>, <<"u">>, <<"h">>, <<"0">>,
    RemoteUID(id), <<"r">>>>

\* Messages of every command a linked server's handler knows and of one it
\* does not know, with a known, an unknown, a malformed and no prefix, and
\* with none to nine parameters.
C40_Lines(id) ==
  {Msg(p, c, SubSeq(C40_Params(id), 1, k)) :
     p \in {PeerSID(id), UnknownSID, RemoteUID(id), <<>>},
     c \in {"PING", "PONG", "ERROR", "UID", "PRIVMSG", "NOTICE", "ENCAP",
            "SID", "SJOIN", "FOO"},
     k \in 0..9}

\* C40: for every message a linked server sends, whatever its command, its
\* prefix and the number of its parameters, the handler runs to its end (it
\* updates the tables, replies with a numeric on a link that stays up, or
\* tears the link down) and never faults reading a parameter the message
\* does not have.
C40_HandlerNeverFaults ==
  (core.pc = "idle" /\ Drained) =>
    \A id \in ConnIDs : \A m \in C40_Lines(id) :
      (Has(LocalServers, id) /\ closed = {}) =>
        ServerHandleMessage(Cur, id, m).core.pc # "panicked"

=============================================================================
